---- MODULE Spec2Model ----
(***************************************************************************)
(* A model of PHOTO_CAD's feedback learning store (src/src/learning.py):   *)
(* the FeedbackEntry value, the LearningSystem object, the history file it *)
(* reads and rewrites, and the parameter suggestion computed from it.      *)
(*                                                                         *)
(* Python values are modelled by tagged records where the code is          *)
(* dynamically typed (Optional[str], parameter values) and a str is the    *)
(* sequence of its characters.  The history file is modelled by the JSON   *)
(* document it holds.                                                      *)
(***************************************************************************)
EXTENDS Integers, Sequences, FiniteSets, TLC

VARIABLES
    file,               \* the file at LearningSystem.feedback_file
    constructed,        \* TRUE while a LearningSystem object exists
    feedback_history,   \* LearningSystem.feedback_history
    call,               \* the last call on the store and its outcome
    path1,              \* SpecSimilar: first argument of _is_similar_image
    path2,              \* SpecSimilar: second argument of _is_similar_image
    similar,            \* SpecSimilar: what _is_similar_image returned
    feedback_file,      \* SpecInstances: each store's LearningSystem.feedback_file
    files,              \* SpecInstances: the file at each path
    stores,             \* SpecInstances: each LearningSystem object
    recorded,           \* SpecInstances: per path, the entries whose add_feedback
                        \*   returned normally
    serialized,         \* SpecInstances: TRUE while no add_feedback call began
                        \*   during another store's call
    lines,              \* SpecSnap: the lines argument of snap_lines
    snap_angle,         \* SpecSnap: the snap_angle argument
    grid_size,          \* SpecSnap: the grid_size argument
    snapped,            \* SpecSnap: the outcome of snap_lines
    resnapped,          \* SpecSnap: the outcome of snap_lines on that outcome
    run,                \* SpecPipeline: the convert_orthophoto_to_dxf call
    outputs,            \* SpecPipeline: the files at the two output paths
    cli,                \* SpecCli: the handle_convert call
    gui,                \* SpecGui: the OrthoPhotoConverterGUI object and its
                        \*   widgets
    workers,            \* SpecGui: the worker threads start_conversion started
    message_queue       \* SpecGui: OrthoPhotoConverterGUI.message_queue

storeVars == <<file, constructed, feedback_history, call>>
similarVars == <<path1, path2, similar>>
instancesVars == <<feedback_file, files, stores, recorded, serialized>>
snapVars == <<lines, snap_angle, grid_size, snapped, resnapped>>
pipelineVars == <<run, outputs>>
cliVars == <<cli>>
guiVars == <<gui, workers, message_queue>>
vars == <<file, constructed, feedback_history, call, path1, path2, similar,
          feedback_file, files, stores, recorded, serialized,
          lines, snap_angle, grid_size, snapped, resnapped, run, outputs,
          cli, gui, workers, message_queue>>

(***************************************************************************)
(* Bounds                                                                  *)
(***************************************************************************)
\* add_feedback is offered while the history is shorter than this.
MaxHistory == 2

(***************************************************************************)
(* Python values                                                           *)
(***************************************************************************)
PyNone == [t |-> "None"]
PyStr(s) == [t |-> "str", v |-> s]
PyInt(n) == [t |-> "int", v |-> n]

\* bool(v) of an Optional[str]: None and the empty str are falsy.
Truthy(v) == v.t = "str" /\ v.v # <<>>

\* isinstance(value, (int, float))
IsNumber(v) == v.t = "int"

NoException == "none"

(***************************************************************************)
(* JSON documents (what json.dump writes and json.load reads)              *)
(***************************************************************************)
JNull == [t |-> "null"]
JString(s) == [t |-> "string", v |-> s]
JNumber(n) == [t |-> "number", v |-> n]
JArray(items) == [t |-> "array", v |-> items]
JObject(members) == [t |-> "object", v |-> members]

\* json encoding of a scalar Python value (json.dump, src/src/learning.py:93)
json_of_py(v) ==
    CASE v.t = "None" -> JNull
      [] v.t = "str" -> JString(v.v)
      [] v.t = "int" -> JNumber(v.v)

\* json decoding of a scalar JSON value (json.load, src/src/learning.py:78)
py_of_json(j) ==
    CASE j.t = "null" -> PyNone
      [] j.t = "string" -> PyStr(j.v)
      [] j.t = "number" -> PyInt(j.v)

\* The file: absent, or present holding text that is JSON (wellformed) or not.
NoFile == [exists |-> FALSE, wellformed |-> FALSE, json |-> JNull]
JsonFile(j) == [exists |-> TRUE, wellformed |-> TRUE, json |-> j]
GarbageFile == [exists |-> TRUE, wellformed |-> FALSE, json |-> JNull]

(***************************************************************************)
(* FeedbackEntry                                                           *)
(***************************************************************************)
\* FeedbackEntry.__init__; now is what datetime.now().isoformat() returns.
FeedbackEntry(image_path, parameters, rating, user_notes, timestamp, now) ==
    [image_path |-> image_path,
     parameters |-> parameters,
     rating |-> rating,
     user_notes |-> user_notes,
     timestamp |-> IF Truthy(timestamp) THEN timestamp.v ELSE now]

\* to_dict leaving the timestamp out of the dictionary.
to_dict_without_timestamp(entry) ==
    JObject([image_path |-> JString(entry.image_path),
             parameters |-> JObject([k \in DOMAIN entry.parameters |->
                                        json_of_py(entry.parameters[k])]),
             rating |-> JNumber(entry.rating),
             user_notes |-> json_of_py(entry.user_notes)])

to_dict(entry) ==
    JObject([image_path |-> JString(entry.image_path),
             parameters |-> JObject([k \in DOMAIN entry.parameters |->
                                        json_of_py(entry.parameters[k])]),
             rating |-> JNumber(entry.rating),
             user_notes |-> json_of_py(entry.user_notes),
             timestamp |-> JString(entry.timestamp)])

\* data.get(key): the member, or None when the object has no such member.
dict_get(members, key) ==
    IF key \in DOMAIN members THEN py_of_json(members[key]) ELSE PyNone

\* The exception FeedbackEntry.from_dict(data) raises, if any: subscripting
\* a value that is not a dict is a TypeError, a missing key a KeyError.
from_dict_raises(data) ==
    IF data.t # "object" THEN "TypeError"
    ELSE IF {"image_path", "parameters", "rating"} \subseteq DOMAIN data.v
         THEN NoException
         ELSE "KeyError"

from_dict(data, now) ==
    FeedbackEntry(data.v.image_path.v,
                  [k \in DOMAIN data.v.parameters.v |->
                      py_of_json(data.v.parameters.v[k])],
                  data.v.rating.v,
                  dict_get(data.v, "user_notes"),
                  dict_get(data.v, "timestamp"),
                  now)

(***************************************************************************)
(* LearningSystem: loading and saving the history file                     *)
(***************************************************************************)
\* The exception raised by
\*     [FeedbackEntry.from_dict(entry) for entry in data]
\* if any: that of the first entry that raises.  Iterating a dict yields its
\* keys and iterating a str its characters, each a str, which from_dict
\* cannot subscript by a key; a number or null cannot be iterated at all.
comprehension_raises(data) ==
    CASE data.t = "array" ->
            LET bad == {i \in DOMAIN data.v :
                            from_dict_raises(data.v[i]) # NoException}
            IN  IF bad = {} THEN NoException
                ELSE from_dict_raises(
                         data.v[CHOOSE i \in bad : \A j \in bad : i <= j])
      [] data.t = "object" ->
            IF DOMAIN data.v = {} THEN NoException ELSE "TypeError"
      [] data.t = "string" ->
            IF data.v = <<>> THEN NoException ELSE "TypeError"
      [] OTHER -> "TypeError"

\* load_feedback on file f: the exception that leaves it (json.JSONDecodeError
\* and KeyError are caught and answered by a warning and an empty history),
\* whether the warning was printed, and feedback_history afterwards.
load_feedback(f, now) ==
    IF ~f.exists
    THEN [raised |-> NoException, warned |-> FALSE, feedback_history |-> <<>>]
    ELSE IF ~f.wellformed
    THEN [raised |-> NoException, warned |-> TRUE, feedback_history |-> <<>>]
    ELSE LET raises == comprehension_raises(f.json)
         IN  CASE raises = NoException ->
                    [raised |-> NoException, warned |-> FALSE,
                     feedback_history |->
                        IF f.json.t = "array"
                        THEN [i \in DOMAIN f.json.v |->
                                 from_dict(f.json.v[i], now)]
                        ELSE <<>>]
               [] raises = "KeyError" ->
                    [raised |-> NoException, warned |-> TRUE,
                     feedback_history |-> <<>>]
               [] OTHER ->
                    [raised |-> raises, warned |-> FALSE,
                     feedback_history |-> <<>>]

\* save_feedback writing the newest entry only, not the whole history.
save_feedback_last_entry_only(history, f, io) ==
    IF io = "ok"
    THEN [raised |-> NoException,
          file |-> JsonFile(JArray(<<to_dict(history[Len(history)])>>))]
    ELSE [raised |-> "OSError", file |-> f]

\* save_feedback: the file afterwards and the exception raised, if any.  io
\* is the file system's answer to mkdir and open(..., "w"): "ok", or
\* "OSError" when the file cannot be created or opened for writing, which
\* leaves it as it was.
save_feedback(history, f, io) ==
    IF io = "ok"
    THEN [raised |-> NoException,
          file |-> JsonFile(JArray([i \in DOMAIN history |->
                                       to_dict(history[i])]))]
    ELSE [raised |-> "OSError", file |-> f]

(***************************************************************************)
(* str and pathlib operations used by _is_similar_image                    *)
(***************************************************************************)
UpperCase == <<"A", "B", "C", "D", "E", "F", "G", "H", "I", "J", "K", "L", "M",
               "N", "O", "P", "Q", "R", "S", "T", "U", "V", "W", "X", "Y", "Z">>
LowerCase == <<"a", "b", "c", "d", "e", "f", "g", "h", "i", "j", "k", "l", "m",
               "n", "o", "p", "q", "r", "s", "t", "u", "v", "w", "x", "y", "z">>

\* str.lower()
lower(s) ==
    [i \in DOMAIN s |->
        IF \E k \in DOMAIN UpperCase : UpperCase[k] = s[i]
        THEN LowerCase[CHOOSE k \in DOMAIN UpperCase : UpperCase[k] = s[i]]
        ELSE s[i]]

\* str.rfind(c), counted from 1: 0 when c does not occur.
rfind(s, c) ==
    LET at == {i \in DOMAIN s : s[i] = c}
    IN  IF at = {} THEN 0 ELSE CHOOSE i \in at : \A j \in at : j <= i

\* Path(p).name for a path that does not end in a separator: what follows
\* the last "/".
path_name(p) == SubSeq(p, rfind(p, "/") + 1, Len(p))

\* Path(p).stem: the name without its last suffix; a dot that starts or ends
\* the name begins no suffix.
stem(p) ==
    LET name == path_name(p)
        i == rfind(name, ".")
    IN  IF 1 < i /\ i < Len(name) THEN SubSeq(name, 1, i - 1) ELSE name

\* The characters the pattern [_\-\s.] matches.
Separators == {"_", "-", " ", "."}

\* re.split(r"[_\-\s.]", s): the pieces between separators, empty ones kept.
RECURSIVE re_split(_)
re_split(s) ==
    LET at == {i \in DOMAIN s : s[i] \in Separators}
    IN  IF at = {} THEN <<s>>
        ELSE LET i == CHOOSE k \in at : \A j \in at : k <= j
             IN  <<SubSeq(s, 1, i - 1)>> \o re_split(SubSeq(s, i + 1, Len(s)))

\* _is_similar_image asking for a first part of more than 4 characters.
is_similar_image_longer_prefix(p1, p2) ==
    LET name1 == lower(stem(p1))
        name2 == lower(stem(p2))
        parts1 == re_split(name1)
        parts2 == re_split(name2)
    IN  IF /\ parts1 # <<>> /\ parts2 # <<>>
           /\ Len(parts1[1]) > 4 /\ Len(parts2[1]) > 4
        THEN parts1[1] = parts2[1]
        ELSE name1 = name2

is_similar_image(p1, p2) ==
    LET name1 == lower(stem(p1))
        name2 == lower(stem(p2))
        parts1 == re_split(name1)
        parts2 == re_split(name2)
    IN  IF /\ parts1 # <<>> /\ parts2 # <<>>
           /\ Len(parts1[1]) >= 4 /\ Len(parts2[1]) >= 4
        THEN parts1[1] = parts2[1]
        ELSE name1 = name2

(***************************************************************************)
(* LearningSystem: suggestion and statistics                               *)
(***************************************************************************)
get_default_parameters ==
    [snap_angle |-> 15,
     low_threshold |-> 50,
     high_threshold |-> 150,
     line_threshold |-> 100,
     min_line_length |-> 100,
     max_line_gap |-> 10]

RECURSIVE sum(_)
sum(values) ==
    IF values = <<>> THEN 0 ELSE Head(values) + sum(Tail(values))

\* np.mean(values), kept exact as a fraction.
np_mean(values) == [num |-> sum(values), den |-> Len(values)]

\* math.floor(x) in place of int(x): rounding toward minus infinity.
py_int_floor(x) == x.num \div x.den

\* int(x) of a float: truncation toward zero.
py_int(x) ==
    IF x.num >= 0 THEN x.num \div x.den ELSE -((-x.num) \div x.den)

\* param_values[key] as _average_parameters collects it: the numeric values
\* of key over the entries that have it, in order.
RECURSIVE param_values(_, _)
param_values(entries, key) ==
    IF entries = <<>> THEN <<>>
    ELSE LET parameters == Head(entries).parameters
         IN  (IF key \in DOMAIN parameters /\ IsNumber(parameters[key])
              THEN <<parameters[key].v>> ELSE <<>>)
             \o param_values(Tail(entries), key)

\* _average_parameters without the loop that fills in the missing defaults.
average_parameters_without_defaults(entries) ==
    IF entries = <<>> THEN get_default_parameters
    ELSE LET keys == UNION {DOMAIN entries[i].parameters : i \in DOMAIN entries}
             averaged == {k \in keys : param_values(entries, k) # <<>>}
         IN  [k \in averaged |-> py_int(np_mean(param_values(entries, k)))]

average_parameters(entries) ==
    IF entries = <<>> THEN get_default_parameters
    ELSE LET keys == UNION {DOMAIN entries[i].parameters : i \in DOMAIN entries}
             averaged == {k \in keys : param_values(entries, k) # <<>>}
             defaults == get_default_parameters
         IN  [k \in averaged \cup DOMAIN defaults |->
                 IF k \in averaged
                 THEN py_int(np_mean(param_values(entries, k)))
                 ELSE defaults[k]]

\* The rating filter with the comparison inverted.
RECURSIVE filter_rating_inverted(_, _)
filter_rating_inverted(history, min_rating) ==
    IF history = <<>> THEN <<>>
    ELSE (IF Head(history).rating <= min_rating
          THEN <<Head(history)>> ELSE <<>>)
         \o filter_rating_inverted(Tail(history), min_rating)

RECURSIVE filter_rating(_, _)
filter_rating(history, min_rating) ==
    IF history = <<>> THEN <<>>
    ELSE (IF Head(history).rating >= min_rating
          THEN <<Head(history)>> ELSE <<>>)
         \o filter_rating(Tail(history), min_rating)

RECURSIVE filter_similar(_, _)
filter_similar(entries, image_path) ==
    IF entries = <<>> THEN <<>>
    ELSE (IF is_similar_image(Head(entries).image_path, image_path)
          THEN <<Head(entries)>> ELSE <<>>)
         \o filter_similar(Tail(entries), image_path)

\* get_suggested_parameters answering with the defaults when no qualifying
\* entry is similar to image_path.
get_suggested_parameters_no_fallback(history, image_path, min_rating) ==
    IF history = <<>> THEN get_default_parameters
    ELSE LET good_results == filter_rating(history, min_rating)
         IN  IF good_results = <<>> THEN get_default_parameters
             ELSE IF Truthy(image_path)
                  THEN average_parameters(
                           filter_similar(good_results, image_path.v))
                  ELSE average_parameters(good_results)

\* image_path is None or a str.
get_suggested_parameters(history, image_path, min_rating) ==
    IF history = <<>> THEN get_default_parameters
    ELSE LET good_results == filter_rating(history, min_rating)
         IN  IF good_results = <<>> THEN get_default_parameters
             ELSE LET similar_results ==
                          IF Truthy(image_path)
                          THEN filter_similar(good_results, image_path.v)
                          ELSE <<>>
                  IN  IF Truthy(image_path) /\ similar_results # <<>>
                      THEN average_parameters(similar_results)
                      ELSE average_parameters(good_results)

\* ratings.count(r)
RECURSIVE count(_, _)
count(ratings, r) ==
    IF ratings = <<>> THEN 0
    ELSE (IF Head(ratings) = r THEN 1 ELSE 0) + count(Tail(ratings), r)

\* average_rating is kept exact as a fraction (the int 0 as 0/1); an empty
\* rating_distribution {} is the function with no argument, <<>>.
get_statistics(history) ==
    IF history = <<>>
    THEN [total_feedback |-> 0,
          average_rating |-> [num |-> 0, den |-> 1],
          rating_distribution |-> <<>>,
          most_recent |-> PyNone]
    ELSE LET ratings == [i \in DOMAIN history |-> history[i].rating]
         IN  [total_feedback |-> Len(history),
              average_rating |-> [num |-> sum(ratings), den |-> Len(ratings)],
              rating_distribution |-> [i \in 1..5 |-> count(ratings, i)],
              most_recent |-> PyStr(history[Len(history)].timestamp)]

(***************************************************************************)
(* Inputs                                                                  *)
(***************************************************************************)
\* What datetime.now().isoformat() may return.
Timestamps == {<<"T", "1">>, <<"T", "2">>}

orth_1_jpg == <<"o", "r", "t", "h", "_", "1", ".", "j", "p", "g">>
orth_2_jpg == <<"o", "r", "t", "h", "_", "2", ".", "j", "p", "g">>
other_jpg == <<"o", "t", "h", "e", "r", ".", "j", "p", "g">>
empty_str == <<>>

\* The arguments add_feedback is called with: ratings inside and outside
\* 1..5, parameter dicts with few or no keys, a value that is not a number,
\* notes given or not.
FeedbackInputs ==
    { [image_path |-> orth_1_jpg,
       parameters |-> [snap_angle |-> PyInt(10), low_threshold |-> PyInt(40)],
       rating |-> 5, user_notes |-> PyNone],
      [image_path |-> other_jpg,
       parameters |-> [snap_angle |-> PyInt(15)],
       rating |-> 4, user_notes |-> PyStr(<<"o", "k">>)],
      [image_path |-> orth_1_jpg,
       parameters |-> [snap_angle |-> PyInt(-15), max_line_gap |-> PyNone],
       rating |-> 5, user_notes |-> PyNone],
      [image_path |-> empty_str,
       parameters |-> [snap_angle |-> PyInt(20)],
       rating |-> 4, user_notes |-> PyNone],
      [image_path |-> orth_1_jpg,
       parameters |-> <<>>,
       rating |-> 0, user_notes |-> PyNone],
      [image_path |-> orth_1_jpg,
       parameters |-> <<>>,
       rating |-> 6, user_notes |-> PyNone] }

\* The image_path and min_rating get_suggested_parameters is called with.
ImagePaths == {PyNone, PyStr(empty_str), PyStr(orth_2_jpg)}
MinRatings == {4, 5}

\* The file system's answers to save_feedback.
IoOutcomes == {"ok", "OSError"}

\* Entries of a history file found at start-up.
SavedEntry ==
    JObject([image_path |-> JString(orth_1_jpg),
             parameters |-> JObject([snap_angle |-> JNumber(20)]),
             rating |-> JNumber(5),
             user_notes |-> JNull,
             timestamp |-> JString(<<"T", "0">>)])
EntryRating7 ==
    JObject([image_path |-> JString(other_jpg),
             parameters |-> JObject([snap_angle |-> JNumber(45)]),
             rating |-> JNumber(7)])
EntryNoRating ==
    JObject([image_path |-> JString(other_jpg),
             parameters |-> JObject(<<>>)])

\* The history file found at start-up: absent, not JSON (an empty file
\* included), JSON that is no array, an array with an item that is no
\* object or lacks a key, a file an earlier run saved, and a file whose
\* entry carries a rating outside 1..5 and neither notes nor timestamp.
InitFiles ==
    { NoFile,
      GarbageFile,
      JsonFile(JNumber(5)),
      JsonFile(JObject(<<>>)),
      JsonFile(JArray(<<>>)),
      JsonFile(JArray(<<JNumber(1)>>)),
      JsonFile(JArray(<<SavedEntry>>)),
      JsonFile(JArray(<<EntryRating7>>)),
      JsonFile(JArray(<<SavedEntry, EntryNoRating>>)) }

(***************************************************************************)
(* The store's operations                                                  *)
(***************************************************************************)
\* LearningSystem(feedback_file) on the file as it is: __init__ sets an
\* empty history and calls load_feedback; an exception that leaves
\* load_feedback leaves the constructor, and no object exists.
Construct(now) ==
    LET loaded == load_feedback(file, now)
    IN  /\ constructed' = (loaded.raised = NoException)
        /\ feedback_history' = loaded.feedback_history
        /\ call' = [op |-> "__init__", raised |-> loaded.raised,
                    warned |-> loaded.warned]
        /\ UNCHANGED <<file, similarVars, instancesVars,
                   snapVars, pipelineVars,
                       cliVars, guiVars>>

\* add_feedback checking the rating only after the entry is appended.
AddFeedbackValidatingLate(image_path, parameters, rating, user_notes, now, io) ==
    LET args == [image_path |-> image_path, parameters |-> parameters,
                 rating |-> rating, user_notes |-> user_notes]
        entry == FeedbackEntry(image_path, parameters, rating, user_notes,
                               PyNone, now)
        history == Append(feedback_history, entry)
        saved == save_feedback(history, file, io)
    IN  /\ constructed
        /\ Len(feedback_history) < MaxHistory
        /\ feedback_history' = history
        /\ IF ~(1 <= rating /\ rating <= 5)
           THEN /\ call' = [op |-> "add_feedback", args |-> args,
                            raised |-> "ValueError"]
                /\ UNCHANGED file
           ELSE /\ file' = saved.file
                /\ call' = [op |-> "add_feedback", args |-> args,
                            raised |-> saved.raised]
        /\ UNCHANGED <<constructed, similarVars, instancesVars,
                   snapVars, pipelineVars,
                       cliVars, guiVars>>

AddFeedback(image_path, parameters, rating, user_notes, now, io) ==
    LET args == [image_path |-> image_path, parameters |-> parameters,
                 rating |-> rating, user_notes |-> user_notes]
    IN  /\ constructed
        /\ Len(feedback_history) < MaxHistory
        /\ IF ~(1 <= rating /\ rating <= 5)
           THEN /\ call' = [op |-> "add_feedback", args |-> args,
                            raised |-> "ValueError"]
                /\ UNCHANGED <<file, feedback_history>>
           ELSE LET entry == FeedbackEntry(image_path, parameters, rating,
                                           user_notes, PyNone, now)
                    history == Append(feedback_history, entry)
                    saved == save_feedback(history, file, io)
                IN  /\ feedback_history' = history
                    /\ file' = saved.file
                    /\ call' = [op |-> "add_feedback", args |-> args,
                                raised |-> saved.raised]
        /\ UNCHANGED <<constructed, similarVars, instancesVars,
                   snapVars, pipelineVars,
                       cliVars, guiVars>>

\* get_suggested_parameters filtering self.feedback_history in place.
GetSuggestedParametersFiltering(image_path, min_rating) ==
    /\ constructed
    /\ feedback_history' = filter_rating(feedback_history, min_rating)
    /\ call' = [op |-> "get_suggested_parameters",
                image_path |-> image_path, min_rating |-> min_rating,
                ret |-> get_suggested_parameters(feedback_history,
                                                 image_path, min_rating)]
    /\ UNCHANGED <<file, constructed, similarVars, instancesVars, snapVars,
                   pipelineVars, cliVars, guiVars>>

GetSuggestedParameters(image_path, min_rating) ==
    /\ constructed
    /\ call' = [op |-> "get_suggested_parameters",
                image_path |-> image_path, min_rating |-> min_rating,
                ret |-> get_suggested_parameters(feedback_history,
                                                 image_path, min_rating)]
    /\ UNCHANGED <<file, constructed, feedback_history, similarVars,
                   instancesVars, snapVars, pipelineVars,
                   cliVars, guiVars>>

GetStatistics ==
    /\ constructed
    /\ call' = [op |-> "get_statistics",
                ret |-> get_statistics(feedback_history)]
    /\ UNCHANGED <<file, constructed, feedback_history, similarVars,
                   instancesVars, snapVars, pipelineVars,
                   cliVars, guiVars>>

\* clear_history leaving the file where it is.
ClearHistoryKeepingFile ==
    /\ constructed
    /\ feedback_history' = <<>>
    /\ call' = [op |-> "clear_history", existed |-> file.exists]
    /\ UNCHANGED <<file, constructed, similarVars, instancesVars,
                   snapVars, pipelineVars,
                   cliVars, guiVars>>

\* clear_history empties the list, then unlinks the file if exists() says
\* it is there; existed is what exists() answered.
ClearHistory ==
    /\ constructed
    /\ feedback_history' = <<>>
    /\ file' = IF file.exists THEN NoFile ELSE file
    /\ call' = [op |-> "clear_history", existed |-> file.exists]
    /\ UNCHANGED <<constructed, similarVars, instancesVars,
                   snapVars, pipelineVars,
                   cliVars, guiVars>>

(***************************************************************************)
(* Spec: one history file and the LearningSystem objects constructed on    *)
(* it, one after the other                                                 *)
(***************************************************************************)
StoreIdle ==
    /\ file = NoFile
    /\ constructed = FALSE
    /\ feedback_history = <<>>
    /\ call = [op |-> "none"]

SimilarIdle ==
    /\ path1 = <<>>
    /\ path2 = <<>>
    /\ similar = [called |-> FALSE, ret |-> FALSE]

InstancesIdle ==
    /\ feedback_file = <<>>
    /\ files = <<>>
    /\ stores = <<>>
    /\ recorded = <<>>
    /\ serialized = TRUE

NotCalled == [called |-> FALSE]

SnapIdle ==
    /\ lines = <<>>
    /\ snap_angle = 0
    /\ grid_size = PyNone
    /\ snapped = NotCalled
    /\ resnapped = NotCalled

PipelineIdle ==
    /\ run = [pc |-> "idle"]
    /\ outputs = <<>>

CliIdle == cli = NotCalled

GuiIdle ==
    /\ gui = <<>>
    /\ workers = <<>>
    /\ message_queue = <<>>

Init ==
    /\ file \in InitFiles
    /\ \E now \in Timestamps :
          LET loaded == load_feedback(file, now)
          IN  /\ constructed = (loaded.raised = NoException)
              /\ feedback_history = loaded.feedback_history
              /\ call = [op |-> "__init__", raised |-> loaded.raised,
                         warned |-> loaded.warned]
    /\ SimilarIdle
    /\ InstancesIdle
    /\ SnapIdle
    /\ PipelineIdle
    /\ CliIdle
    /\ GuiIdle

Next ==
    \/ \E now \in Timestamps : Construct(now)
    \/ \E input \in FeedbackInputs, now \in Timestamps, io \in IoOutcomes :
          AddFeedback(input.image_path, input.parameters, input.rating,
                      input.user_notes, now, io)
    \/ \E image_path \in ImagePaths, min_rating \in MinRatings :
          GetSuggestedParameters(image_path, min_rating)
    \/ GetStatistics
    \/ ClearHistory

Spec == Init /\ [][Next]_vars

(***************************************************************************)
(* SpecSimilar: _is_similar_image applied to pairs of paths                *)
(***************************************************************************)
SimilarPaths ==
    { orth_1_jpg, orth_2_jpg, other_jpg, empty_str,
      <<"O", "R", "T", "H", "_", "3", ".", "j", "p", "g">>,
      <<"d", "i", "r", "/", "o", "r", "t", "h", "-", "4", ".", "t", "i", "f">>,
      <<"o", "r", "t", "h", ".", "j", "p", "g">>,
      <<"o", "r", "t", "h", "o", "_", "1", ".", "j", "p", "g">>,
      <<"a", "b", "c", "_", "1", ".", "j", "p", "g">>,
      <<"a", "b", "c", "_", "2", ".", "j", "p", "g">>,
      <<"a", "b", "c", "_", "1", ".", "p", "n", "g">>,
      <<"A", "b", "c", " ", "2">>,
      <<".", "o", "r", "t", "h">>,
      <<"o", "r", "t", "h", ".", "1", ".", "j", "p", "g">> }

SimilarInit ==
    /\ path1 \in SimilarPaths
    /\ path2 \in SimilarPaths
    /\ similar = [called |-> FALSE, ret |-> FALSE]
    /\ StoreIdle
    /\ InstancesIdle
    /\ SnapIdle
    /\ PipelineIdle
    /\ CliIdle
    /\ GuiIdle

IsSimilarImage ==
    /\ similar' = [called |-> TRUE, ret |-> is_similar_image(path1, path2)]
    /\ UNCHANGED <<path1, path2, storeVars, instancesVars,
                   snapVars, pipelineVars,
                   cliVars, guiVars>>

SimilarNext == IsSimilarImage

SpecSimilar == SimilarInit /\ [][SimilarNext]_vars

(***************************************************************************)
(* SpecInstances: several LearningSystem objects, one per thread or        *)
(* invocation, constructed on history files that may be the same file.     *)
(* add_feedback is two steps, the append to the object's list and the      *)
(* rewrite of the file by save_feedback, and steps of different objects    *)
(* interleave.                                                             *)
(***************************************************************************)
MaxAdds == 2

Stores == {"s1", "s2"}
Paths == {"f1", "f2"}

\* datetime.now() of the calls: the clock does not advance in SpecInstances.
InstanceNow == <<"T", "1">>

InstanceInputs ==
    { [image_path |-> orth_1_jpg,
       parameters |-> [snap_angle |-> PyInt(10)],
       rating |-> 5, user_notes |-> PyNone],
      [image_path |-> other_jpg,
       parameters |-> [snap_angle |-> PyInt(15)],
       rating |-> 4, user_notes |-> PyNone],
      [image_path |-> other_jpg,
       parameters |-> <<>>,
       rating |-> 6, user_notes |-> PyNone] }

\* LearningSystem(feedback_file) by store s on the file as it is.
StoreConstruct(s, now) ==
    LET loaded == load_feedback(files[feedback_file[s]], now)
    IN  /\ stores[s].pc = "idle"
        /\ stores' = [stores EXCEPT
                        ![s] = [constructed |-> loaded.raised = NoException,
                                feedback_history |-> loaded.feedback_history,
                                pc |-> "idle",
                                raised |-> loaded.raised]]
        /\ UNCHANGED <<feedback_file, files, recorded, serialized,
                       storeVars, similarVars,
                   snapVars, pipelineVars,
                       cliVars, guiVars>>

\* add_feedback with self.feedback_history = [entry] in place of the append.
StoreAddFeedbackReplacing(s, image_path, parameters, rating, user_notes, now) ==
    /\ stores[s].constructed
    /\ stores[s].pc = "idle"
    /\ Len(stores[s].feedback_history) < MaxAdds
    /\ IF ~(1 <= rating /\ rating <= 5)
       THEN /\ stores' = [stores EXCEPT ![s].raised = "ValueError"]
            /\ UNCHANGED serialized
       ELSE LET entry == FeedbackEntry(image_path, parameters, rating,
                                       user_notes, PyNone, now)
            IN  /\ stores' = [stores EXCEPT
                                ![s].feedback_history = <<entry>>,
                                ![s].pc = "save_feedback",
                                ![s].raised = NoException]
                /\ serialized' =
                      (serialized /\ \A t \in Stores : stores[t].pc = "idle")
    /\ UNCHANGED <<feedback_file, files, recorded, storeVars, similarVars,
                   snapVars, pipelineVars,
                   cliVars, guiVars>>

\* add_feedback by store s up to the call of save_feedback: the rating is
\* checked, the entry built and appended to the store's own list.
StoreAddFeedback(s, image_path, parameters, rating, user_notes, now) ==
    /\ stores[s].constructed
    /\ stores[s].pc = "idle"
    /\ Len(stores[s].feedback_history) < MaxAdds
    /\ IF ~(1 <= rating /\ rating <= 5)
       THEN /\ stores' = [stores EXCEPT ![s].raised = "ValueError"]
            /\ UNCHANGED serialized
       ELSE LET entry == FeedbackEntry(image_path, parameters, rating,
                                       user_notes, PyNone, now)
            IN  /\ stores' = [stores EXCEPT
                                ![s].feedback_history =
                                     Append(stores[s].feedback_history, entry),
                                ![s].pc = "save_feedback",
                                ![s].raised = NoException]
                /\ serialized' =
                      (serialized /\ \A t \in Stores : stores[t].pc = "idle")
    /\ UNCHANGED <<feedback_file, files, recorded, storeVars, similarVars,
                   snapVars, pipelineVars,
                   cliVars, guiVars>>

\* The rest of add_feedback: save_feedback rewrites the store's file with
\* the store's own list, and add_feedback returns or lets the OSError out.
\* The entry is recorded as added when the call returns normally.
StoreSaveFeedback(s, io) ==
    LET path == feedback_file[s]
        history == stores[s].feedback_history
        saved == save_feedback(history, files[path], io)
    IN  /\ stores[s].pc = "save_feedback"
        /\ files' = [files EXCEPT ![path] = saved.file]
        /\ stores' = [stores EXCEPT ![s].pc = "idle",
                                    ![s].raised = saved.raised]
        /\ recorded' =
              IF saved.raised = NoException
              THEN [recorded EXCEPT
                       ![path] = @ \cup {history[Len(history)]}]
              ELSE recorded
        /\ UNCHANGED <<feedback_file, serialized, storeVars, similarVars,
                   snapVars, pipelineVars,
                       cliVars, guiVars>>

\* Each store was constructed on its path, where there was no file yet.
InstancesInit ==
    /\ feedback_file \in [Stores -> Paths]
    /\ files = [p \in Paths |-> NoFile]
    /\ stores = [s \in Stores |->
                   [constructed |-> TRUE, feedback_history |-> <<>>,
                    pc |-> "idle", raised |-> NoException]]
    /\ recorded = [p \in Paths |-> {}]
    /\ serialized = TRUE
    /\ StoreIdle
    /\ SimilarIdle
    /\ SnapIdle
    /\ PipelineIdle
    /\ CliIdle
    /\ GuiIdle

InstancesNext ==
    \/ \E s \in Stores : StoreConstruct(s, InstanceNow)
    \/ \E s \in Stores, input \in InstanceInputs :
          StoreAddFeedback(s, input.image_path, input.parameters,
                           input.rating, input.user_notes, InstanceNow)
    \/ \E s \in Stores, io \in IoOutcomes : StoreSaveFeedback(s, io)

SpecInstances == InstancesInit /\ [][InstancesNext]_vars

(***************************************************************************)
(* Snapping (src/src/core/snapping.py)                                     *)
(*                                                                         *)
(* A segment is <<x1, y1, x2, y2>> with integer coordinates and a first    *)
(* endpoint that is not negative (a pixel).  The lines argument is a       *)
(* Python value of one of two shapes: "rows", the array                    *)
(* [[[x1, y1, x2, y2]], ...] that HoughLinesP returns, a sequence of rows  *)
(* of segments, and "segments", the list [(x1, y1, x2, y2), ...] that      *)
(* snap_to_angles returns.                                                 *)
(*                                                                         *)
(* The float64 arithmetic is modelled by the exact real value it rounds:   *)
(* int() of a value that is no integer is its truncation, and where the    *)
(* exact value is an integer M that the floats reach through inexact       *)
(* factors (sin(radians(30)) is 0.49999999999999994) the float may fall on *)
(* either side of M, and the operators return the set of the outcomes.     *)
(* snap_angle is a multiple of 15 that divides 180, or 0.                  *)
(***************************************************************************)
Rows(v) == [shape |-> "rows", v |-> v]
Segments(v) == [shape |-> "segments", v |-> v]

abs(n) == IF n < 0 THEN -n ELSE n

\* 10000 * cos(j * 15 degrees), for j = 0..23.
Cos15 ==
    << 10000, 9659, 8660, 7071, 5000, 2588, 0, -2588, -5000, -7071, -8660,
       -9659, -10000, -9659, -8660, -7071, -5000, -2588, 0, 2588, 5000,
       7071, 8660, 9659 >>

\* np.cos and np.sin of j * 15 degrees, times 10000.
cos_e4(j) == Cos15[(j % 24) + 1]
sin_e4(j) == cos_e4(j - 6)

\* round(angle / snap_angle) for angle = arctan2(dy, dx) in degrees, which
\* lies in (-180, 180]: the multiple of snap_angle whose direction is
\* nearest to (dx, dy), the even one of two that are equally near
\* (round-half-to-even), -180 rather than 180 for an angle below 0.
round_angle(dx, dy, a) ==
    LET ms == (-(180 \div a))..(180 \div a)
        dot == [m \in ms |-> dx * cos_e4(m * (a \div 15))
                                + dy * sin_e4(m * (a \div 15))]
        nearest == {m \in ms : \A k \in ms : dot[k] <= dot[m]}
        signed == {m \in nearest : IF dy < 0 THEN m <= 0 ELSE m >= 0}
        even == {m \in signed : m % 2 = 0}
    IN  IF dx = 0 /\ dy = 0 THEN 0
        ELSE IF Cardinality(signed) = 1 THEN CHOOSE m \in signed : TRUE
        ELSE CHOOSE m \in even : TRUE

\* The square of cos(j * 15 degrees): 1, (2 + sqrt(3)) / 4, 3/4, 1/2, 1/4,
\* (2 - sqrt(3)) / 4 or 0, numbered 0 to 6.
cos_class(j) == IF j % 12 <= 6 THEN j % 12 ELSE 12 - (j % 12)

\* k <= sqrt(n) * |cos|, for k >= 0, decided on the squares.
at_most(k, n, class) ==
    CASE class = 0 -> k * k <= n
      [] class = 1 -> \/ 4 * k * k - 2 * n <= 0
                      \/ (4 * k * k - 2 * n) * (4 * k * k - 2 * n)
                            <= 3 * n * n
      [] class = 2 -> 4 * k * k <= 3 * n
      [] class = 3 -> 2 * k * k <= n
      [] class = 4 -> 4 * k * k <= n
      [] class = 5 -> /\ 2 * n - 4 * k * k >= 0
                      /\ 3 * n * n
                            <= (2 * n - 4 * k * k) * (2 * n - 4 * k * k)
      [] class = 6 -> k = 0

\* floor(sqrt(n) * |cos|)
floor_of(n, class) ==
    CHOOSE k \in 0..n : at_most(k, n, class) /\ ~at_most(k + 1, n, class)

\* sqrt(n) * |cos| is an integer.
is_whole(n, class) ==
    LET k == floor_of(n, class)
    IN  CASE class = 0 -> k * k = n
          [] class = 2 -> 4 * k * k = 3 * n
          [] class = 3 -> 2 * k * k = n
          [] class = 4 -> 4 * k * k = n
          [] class = 6 -> TRUE
          [] OTHER -> n = 0

\* The outcomes of int(p + length * np.cos(np.radians(angle))), fn = "cos",
\* and of int(p + length * np.sin(np.radians(angle))), fn = "sin", where
\* length is sqrt(n) and angle is j * 15 degrees.
int_endpoint(p, n, j, fn) ==
    LET jj == IF fn = "cos" THEN j ELSE j - 6
        class == cos_class(jj)
        sign == IF cos_e4(jj) > 0 THEN 1 ELSE IF cos_e4(jj) < 0 THEN -1 ELSE 0
        k == floor_of(n, class)
        \* cos(radians(90)) is 6.1e-17, not 0, and sin(radians(180)) is
        \* 1.2e-16: the sign of the product added to p
        tiny == IF n = 0 THEN 0
                ELSE IF fn = "cos" THEN 1
                ELSE IF j > 0 THEN 1 ELSE IF j < 0 THEN -1 ELSE 0
        M == p + sign * k
        lo == IF sign > 0 THEN p + k ELSE p - k - 1
    IN  IF class = 6
        THEN IF tiny > 0 THEN (IF p >= 0 THEN {p} ELSE {p, p + 1})
             ELSE IF tiny < 0 THEN (IF p <= 0 THEN {p} ELSE {p - 1, p})
             ELSE {p}
        ELSE IF is_whole(n, class)
        THEN IF class = 0 THEN {M}
             ELSE IF M > 0 THEN {M - 1, M}
             ELSE IF M < 0 THEN {M, M + 1}
             ELSE {0}
        ELSE IF lo >= 0 THEN {lo} ELSE {lo + 1}

\* The loop's body with the new endpoint taken from the origin and not
\* from (x1, y1).
snap_segment_from_origin(segment, a) ==
    LET dx == segment[3] - segment[1]
        dy == segment[4] - segment[2]
        n == dx * dx + dy * dy
        j == round_angle(dx, dy, a) * (a \div 15)
    IN  {<<segment[1], segment[2], x2_new, y2_new>> :
            x2_new \in int_endpoint(0, n, j, "cos"),
            y2_new \in int_endpoint(0, n, j, "sin")}

\* The body of snap_to_angles' loop for one segment: the outcomes of
\* (x1, y1, int(x2_new), int(y2_new)).
snap_segment(segment, a) ==
    LET x1 == segment[1]
        y1 == segment[2]
        dx == segment[3] - x1
        dy == segment[4] - y1
        n == dx * dx + dy * dy
        j == round_angle(dx, dy, a) * (a \div 15)
    IN  {<<x1, y1, x2_new, y2_new>> :
            x2_new \in int_endpoint(x1, n, j, "cos"),
            y2_new \in int_endpoint(y1, n, j, "sin")}

\* The loops skipping the segments of length 0.
RECURSIVE flatten_without_points(_)
flatten_without_points(rows) ==
    IF rows = <<>> THEN <<>>
    ELSE SelectSeq(Head(rows),
                   LAMBDA segment : segment[1] # segment[3]
                                       \/ segment[2] # segment[4])
            \o flatten_without_points(Tail(rows))

\* for line in lines: for x1, y1, x2, y2 in line: the segments in the
\* order the loops visit them.
RECURSIVE flatten(_)
flatten(rows) ==
    IF rows = <<>> THEN <<>> ELSE Head(rows) \o flatten(Tail(rows))

Raised(exception) == [raised |-> exception, rets |-> {}]
Returned(rets) == [raised |-> NoException, rets |-> rets]

\* The lists snap_to_angles' loop may build from the segments it visits.
RECURSIVE snapped_lines_of(_, _)
snapped_lines_of(todo, a) ==
    IF todo = <<>> THEN {<<>>}
    ELSE {<<first>> \o rest : first \in snap_segment(Head(todo), a),
                              rest \in snapped_lines_of(Tail(todo), a)}

\* snap_to_angles(lines, snap_angle): the exception raised, or the set of
\* the lists it may return.  A list of 4-tuples in place of the array of
\* rows fails at the inner loop's unpacking of an int (TypeError), and
\* snap_angle 0 at round() of angle / 0, which is nan for angle 0.0
\* (ValueError) and infinite otherwise (OverflowError).
snap_to_angles(lines_, a) ==
    IF lines_.v = <<>> THEN Returned({<<>>})
    ELSE IF lines_.shape = "segments" THEN Raised("TypeError")
    ELSE LET todo == flatten(lines_.v)
         IN  IF todo = <<>> THEN Returned({<<>>})
             ELSE IF a = 0
             THEN IF todo[1][4] = todo[1][2] /\ todo[1][3] >= todo[1][1]
                  THEN Raised("ValueError")
                  ELSE Raised("OverflowError")
             ELSE Returned(snapped_lines_of(todo, a))

\* int(num / den) in place of round(num / den): truncation toward zero.
py_round_truncating(num, den) ==
    LET nn == IF den < 0 THEN -num ELSE num
        dd == abs(den)
    IN  IF nn >= 0 THEN nn \div dd ELSE -((-nn) \div dd)

\* round(num / den) of Python 3 for ints num and den # 0: the nearest
\* integer, the even one of two that are equally near.
py_round(num, den) ==
    LET nn == IF den < 0 THEN -num ELSE num
        dd == abs(den)
        q == nn \div dd
        r == nn - q * dd
    IN  IF 2 * r < dd THEN q
        ELSE IF 2 * r > dd THEN q + 1
        ELSE IF q % 2 = 0 THEN q ELSE q + 1

\* snap_to_grid on the endpoints of a list of segments, g # 0.
snap_to_grid(segments, g) ==
    [i \in DOMAIN segments |->
        [c \in 1..4 |-> py_round(segments[i][c], g) * g]]

\* The type of the x1 and y1 in the tuples snap_lines returns: the
\* elements of the array as the loops of snap_to_angles unpack them
\* (numpy.int32 for the array of HoughLinesP), or the int that round()
\* returns in snap_to_grid.
scalar_type(lines_, g) ==
    IF g = PyNone /\ lines_.shape = "rows" THEN "numpy.int32" ELSE "int"

\* snap_lines(lines, snap_angle, grid_size): angles first, then the grid
\* when grid_size is not None; a grid_size of 0 divides by zero at the
\* first point (ZeroDivisionError for a Python int, a float overflow in
\* round() for a numpy one).  Each outcome is given with the value of
\* snapped before the grid step (angled) and the value returned (ret).
snap_lines(lines_, a, g) ==
    LET angled == snap_to_angles(lines_, a)
    IN  IF angled.raised # NoException THEN angled
        ELSE IF g = PyNone
        THEN Returned({[angled |-> ret, ret |-> ret] : ret \in angled.rets})
        ELSE IF g.v = 0
        THEN IF angled.rets = {<<>>}
             THEN Returned({[angled |-> <<>>, ret |-> <<>>]})
             ELSE Raised("ZeroDivisionError")
        ELSE Returned({[angled |-> ret, ret |-> snap_to_grid(ret, g.v)] :
                          ret \in angled.rets})

(***************************************************************************)
(* SpecSnap: snap_lines applied to an array of detected lines, and then    *)
(* once more to what it returned                                           *)
(***************************************************************************)
MaxSegments == 2

SnapSegments ==
    { <<0, 0, 1, 4>>, <<0, 0, 4, 0>>, <<2, 3, 2, 0>>, <<3, 1, 2, 0>>,
      <<1, 1, 1, 1>>, <<5, 5, 1, 2>>, <<4, 2, 1, 2>>, <<3, 0, 3, 5>> }

SnapAngles == {0, 15, 45, 90}

GridSizes == {PyNone, PyInt(0), PyInt(2), PyInt(3)}

\* The arrays of shape (N, 1, 4), N <= MaxSegments.
SnapInputs ==
    UNION {[1..n -> {<<segment>> : segment \in SnapSegments}] :
              n \in 0..MaxSegments}

SnapInit ==
    /\ lines \in {Rows(rows) : rows \in SnapInputs}
    /\ snap_angle \in SnapAngles
    /\ grid_size \in GridSizes
    /\ snapped = NotCalled
    /\ resnapped = NotCalled
    /\ StoreIdle
    /\ SimilarIdle
    /\ InstancesIdle
    /\ PipelineIdle
    /\ CliIdle
    /\ GuiIdle

\* What a call of snap_lines leaves: the exception, or one of the values
\* it may return.
Outcomes(how, result) ==
    IF result.raised # NoException
    THEN {[called |-> TRUE, how |-> how, raised |-> result.raised]}
    ELSE {[called |-> TRUE, how |-> how, raised |-> NoException,
           angled |-> r.angled, ret |-> r.ret] : r \in result.rets}

\* snapped = snap_lines(lines, snap_angle, grid_size)
SnapLines ==
    /\ ~snapped.called
    /\ snapped' \in Outcomes("array",
                              snap_lines(lines, snap_angle, grid_size))
    /\ UNCHANGED <<lines, snap_angle, grid_size, resnapped, storeVars,
                   similarVars, instancesVars, pipelineVars,
                   cliVars, guiVars>>

\* snap_lines(snapped, snap_angle, grid_size): the list returned is passed
\* as it is.
SnapLinesAgain ==
    /\ snapped.called /\ snapped.raised = NoException
    /\ ~resnapped.called
    /\ resnapped' \in Outcomes("list",
                                snap_lines(Segments(snapped.ret),
                                           snap_angle, grid_size))
    /\ UNCHANGED <<lines, snap_angle, grid_size, snapped, storeVars,
                   similarVars, instancesVars, pipelineVars,
                   cliVars, guiVars>>

\* snap_lines([[segment] for segment in snapped], snap_angle, grid_size):
\* the list returned is put back into the shape of the array.
SnapLinesAgainAsArray ==
    /\ snapped.called /\ snapped.raised = NoException
    /\ ~resnapped.called
    /\ resnapped' \in Outcomes("array",
                                snap_lines(Rows([i \in DOMAIN snapped.ret |->
                                                   <<snapped.ret[i]>>]),
                                           snap_angle, grid_size))
    /\ UNCHANGED <<lines, snap_angle, grid_size, snapped, storeVars,
                   similarVars, instancesVars, pipelineVars,
                   cliVars, guiVars>>

SnapNext ==
    \/ SnapLines
    \/ SnapLinesAgain
    \/ SnapLinesAgainAsArray

SpecSnap == SnapInit /\ [][SnapNext]_vars

(***************************************************************************)
(* Export (src/src/core/dxf_export.py)                                     *)
(*                                                                         *)
(* A DXF document is modelled by the LINE entities of its modelspace, a    *)
(* GeoJSON file by the JSON document json.dump writes.  An output file is  *)
(* absent or holds a document.                                             *)
(***************************************************************************)
NoOutput == [exists |-> FALSE]
OutputFile(document) == [exists |-> TRUE, document |-> document]

\* The lines with len(line) == 4, which are the ones both exports keep.
four_long(lines_) == SelectSeq(lines_, LAMBDA line : Len(line) = 4)

\* The document export_to_dxf builds: ezdxf.new() and one add_line per
\* line of length 4.
dxf_document(lines_) ==
    LET kept == four_long(lines_)
    IN  [format |-> "DXF",
         entities |-> [i \in DOMAIN kept |->
                          [dxftype |-> "LINE",
                           start |-> <<kept[i][1], kept[i][2]>>,
                           end |-> <<kept[i][3], kept[i][4]>>]]]

\* The feature_collection export_to_geojson dumps.
geojson_document(lines_) ==
    LET kept == four_long(lines_)
        point(x, y) == JArray(<<JNumber(x), JNumber(y)>>)
        feature(line) ==
            JObject([type |-> JString("Feature"),
                     geometry |->
                        JObject([type |-> JString("LineString"),
                                 coordinates |->
                                    JArray(<<point(line[1], line[2]),
                                             point(line[3], line[4])>>)]),
                     properties |-> JObject(<<>>)])
    IN  JObject([type |-> JString("FeatureCollection"),
                 features |-> JArray([i \in DOMAIN kept |->
                                         feature(kept[i])])])

\* export_to_dxf(lines, output_path) on the file as it is: doc.saveas
\* writes the document, or the file system refuses and the file stays.
export_to_dxf(lines_, output, io) ==
    IF io = "ok"
    THEN [raised |-> NoException, file |-> OutputFile(dxf_document(lines_))]
    ELSE [raised |-> io, file |-> output]

\* What json.dump has written when it comes to a value it cannot encode:
\* the beginning of the document, which is no JSON document.
PartialJson == [t |-> "partial"]

\* json.dump(feature_collection, f, indent=2) for coordinates of the
\* given type of scalar: an int is encoded, a numpy.int32 is not (it is
\* no int, and json raises TypeError for it).
json_dump(lines_, scalars) ==
    IF scalars = "numpy.int32" /\ four_long(lines_) # <<>>
    THEN [raised |-> "TypeError", written |-> PartialJson]
    ELSE [raised |-> NoException, written |-> geojson_document(lines_)]

\* export_to_geojson(lines, output_path) on the file as it is, the x1, y1
\* of the lines being scalars of the given type: open(output_path, 'w')
\* fails and the file stays, or it empties the file and json.dump writes.
export_to_geojson(lines_, scalars, output, io) ==
    IF io = "ok"
    THEN LET dumped == json_dump(lines_, scalars)
         IN  [raised |-> dumped.raised, file |-> OutputFile(dumped.written)]
    ELSE [raised |-> io, file |-> output]

(***************************************************************************)
(* The pipeline (src/src/convert_orthophoto_to_dxf_snapping.py) and        *)
(* read_image (src/src/core/raster.py)                                     *)
(***************************************************************************)
\* What is found at image_path: no file, a file cv2.imread returns None
\* for, a file cv2.imread raises on, or an image.
ImageFiles == {"missing", "undecodable", "unreadable", "image"}

\* read_image without the os.path.exists test: a missing file is what
\* cv2.imread returns None for.
read_image_without_exists_test(image_file) ==
    IF image_file = "image"
    THEN [raised |-> NoException, image |-> "image"]
    ELSE [raised |-> "ValueError", image |-> "none"]

\* read_image: FileNotFoundError for a missing file; the ValueError raised
\* for a None image and any exception of cv2.imread leave as ValueError.
read_image(image_file) ==
    IF image_file = "missing"
    THEN [raised |-> "FileNotFoundError", image |-> "none"]
    ELSE IF image_file \in {"undecodable", "unreadable"}
    THEN [raised |-> "ValueError", image |-> "none"]
    ELSE [raised |-> NoException, image |-> "image"]

(***************************************************************************)
(* SpecPipeline: calls of convert_orthophoto_to_dxf, one after the other,  *)
(* each a sequence of stages, on the files at the two output paths         *)
(***************************************************************************)
MaxRuns == 2

out_dxf == <<"o", "u", "t", ".", "d", "x", "f">>
out_geojson == <<"o", "u", "t", ".", "g", "e", "o", "j", "s", "o", "n">>

\* The arguments of a call: what is at image_path, geojson_output_path
\* (None, the empty str or a path) and snap_angle; the other parameters
\* go to cv2, whose answers are the stages' outcomes.
PipelineArgs ==
    [image_file : ImageFiles,
     geojson_output_path : {PyNone, PyStr(empty_str), PyStr(out_geojson)},
     snap_angle : {0, 15, 90}]

\* cv2.Canny and cv2.HoughLinesP return or raise.
StageOutcomes == {"ok", "error"}

\* What cv2.HoughLinesP returns: None where it finds no line (as on an
\* edge map of zeros), or an array of shape (N, 1, 4), N >= 1.
HoughLinesP ==
    { PyNone,
      Rows(<< <<(<<0, 0, 1, 4>>)>> >>),
      Rows(<< <<(<<3, 1, 2, 0>>)>>, <<(<<1, 1, 1, 1>>)>> >>) }

\* detect_lines handing on what HoughLinesP returned.
detect_lines_as_found(hough) == hough

\* detect_lines: return lines if lines is not None else []
detect_lines(hough) == IF hough # PyNone THEN hough ELSE Segments(<<>>)

\* Files found at the output paths before the first call.
OldOutputs ==
    [dxf |-> OutputFile(dxf_document(<< <<9, 9, 8, 8>> >>)),
     geojson |-> OutputFile(geojson_document(<< <<9, 9, 8, 8>> >>))]

\* The n-th call, entered with args.
Begin(n, args) ==
    [n |-> n, pc |-> "read_image", args |-> args,
     hough |-> NotCalled, lines |-> Segments(<<>>),
     snapped_lines |-> <<>>, scalars |-> "int",
     executed |-> <<>>,
     raised |-> NoException, result |-> PyNone]

\* The stage raised: the exception leaves convert_orthophoto_to_dxf.
Fail(stage, exception) ==
    [run EXCEPT !.pc = "failed", !.executed = Append(@, stage),
                !.raised = exception]

\* The stage returned and next is the statement that follows.
Advance(stage, next) ==
    [run EXCEPT !.pc = next, !.executed = Append(@, stage)]

\* The return statement, reached after the last export.
Return(stage) ==
    [run EXCEPT !.pc = "done", !.executed = Append(@, stage),
                !.result = [lines_detected |-> Len(run.lines.v),
                            lines_snapped |-> Len(run.snapped_lines),
                            dxf_path |-> PyStr(out_dxf),
                            geojson_path |-> run.args.geojson_output_path]]

ConvertOrthophotoToDxf(args) ==
    /\ run.pc \in {"done", "failed"}
    /\ run.n < MaxRuns
    /\ run' = Begin(run.n + 1, args)
    /\ UNCHANGED <<outputs, storeVars, similarVars, instancesVars, snapVars,
                   cliVars, guiVars>>

\* image = read_image(image_path)
ReadImage ==
    LET read == read_image(run.args.image_file)
    IN  /\ run.pc = "read_image"
        /\ run' = IF read.raised # NoException
                  THEN Fail("read_image", read.raised)
                  ELSE Advance("read_image", "detect_edges")
        /\ UNCHANGED <<outputs, storeVars, similarVars, instancesVars,
                       snapVars,
                       cliVars, guiVars>>

\* detect_edges going on to detect_lines whatever cv2.Canny did.
DetectEdgesIgnoringFailure(outcome) ==
    /\ run.pc = "detect_edges"
    /\ run' = IF outcome = "error"
              THEN [Advance("detect_edges", "detect_lines")
                       EXCEPT !.raised = "ValueError"]
              ELSE Advance("detect_edges", "detect_lines")
    /\ UNCHANGED <<outputs, storeVars, similarVars, instancesVars, snapVars,
                   cliVars, guiVars>>

\* edges = detect_edges(image, low_threshold, high_threshold): any
\* exception of cv2 leaves as ValueError.
DetectEdges(outcome) ==
    /\ run.pc = "detect_edges"
    /\ run' = IF outcome = "error"
              THEN Fail("detect_edges", "ValueError")
              ELSE Advance("detect_edges", "detect_lines")
    /\ UNCHANGED <<outputs, storeVars, similarVars, instancesVars, snapVars,
                   cliVars, guiVars>>

\* lines = detect_lines(edges, line_threshold, min_line_length, max_line_gap)
DetectLines(outcome, hough) ==
    /\ run.pc = "detect_lines"
    /\ run' = IF outcome = "error"
              THEN Fail("detect_lines", "cv2.error")
              ELSE [Advance("detect_lines", "snap_lines")
                       EXCEPT !.hough = hough,
                              !.lines = detect_lines(hough)]
    /\ UNCHANGED <<outputs, storeVars, similarVars, instancesVars, snapVars,
                   cliVars, guiVars>>

\* snapped_lines = snap_lines(lines, snap_angle)
SnapDetectedLines ==
    LET result == snap_lines(run.lines, run.args.snap_angle, PyNone)
    IN  /\ run.pc = "snap_lines"
        /\ IF result.raised # NoException
           THEN run' = Fail("snap_lines", result.raised)
           ELSE \E r \in result.rets :
                   run' = [Advance("snap_lines", "export_to_dxf")
                              EXCEPT !.snapped_lines = r.ret,
                                     !.scalars =
                                        scalar_type(run.lines, PyNone)]
        /\ UNCHANGED <<outputs, storeVars, similarVars, instancesVars,
                       snapVars,
                       cliVars, guiVars>>

\* export_to_dxf refusing an empty list of lines.
ExportToDxfRefusingEmpty(io) ==
    LET exported == export_to_dxf(run.snapped_lines, outputs.dxf, io)
    IN  /\ run.pc = "export_to_dxf"
        /\ IF run.snapped_lines = <<>>
           THEN /\ run' = Fail("export_to_dxf", "ValueError")
                /\ UNCHANGED outputs
           ELSE /\ outputs' = [outputs EXCEPT !.dxf = exported.file]
                /\ run' = IF exported.raised # NoException
                          THEN Fail("export_to_dxf", exported.raised)
                          ELSE IF Truthy(run.args.geojson_output_path)
                          THEN Advance("export_to_dxf", "export_to_geojson")
                          ELSE Return("export_to_dxf")
        /\ UNCHANGED <<storeVars, similarVars, instancesVars, snapVars,
                       cliVars, guiVars>>

\* export_to_dxf(snapped_lines, dxf_output_path), then the test of
\* geojson_output_path and, where it is falsy, the return.
ExportToDxf(io) ==
    LET exported == export_to_dxf(run.snapped_lines, outputs.dxf, io)
    IN  /\ run.pc = "export_to_dxf"
        /\ outputs' = [outputs EXCEPT !.dxf = exported.file]
        /\ run' = IF exported.raised # NoException
                  THEN Fail("export_to_dxf", exported.raised)
                  ELSE IF Truthy(run.args.geojson_output_path)
                  THEN Advance("export_to_dxf", "export_to_geojson")
                  ELSE Return("export_to_dxf")
        /\ UNCHANGED <<storeVars, similarVars, instancesVars, snapVars,
                       cliVars, guiVars>>

\* export_to_geojson removing the DXF file when it fails.
ExportToGeojsonRollingBack(io) ==
    LET exported == export_to_geojson(run.snapped_lines, run.scalars,
                                      outputs.geojson, io)
    IN  /\ run.pc = "export_to_geojson"
        /\ outputs' = IF exported.raised # NoException
                      THEN [outputs EXCEPT !.dxf = NoOutput]
                      ELSE [outputs EXCEPT !.geojson = exported.file]
        /\ run' = IF exported.raised # NoException
                  THEN Fail("export_to_geojson", exported.raised)
                  ELSE Return("export_to_geojson")
        /\ UNCHANGED <<storeVars, similarVars, instancesVars, snapVars,
                       cliVars, guiVars>>

\* export_to_geojson(snapped_lines, geojson_output_path), then the return.
ExportToGeojson(io) ==
    LET exported == export_to_geojson(run.snapped_lines, run.scalars,
                                      outputs.geojson, io)
    IN  /\ run.pc = "export_to_geojson"
        /\ outputs' = [outputs EXCEPT !.geojson = exported.file]
        /\ run' = IF exported.raised # NoException
                  THEN Fail("export_to_geojson", exported.raised)
                  ELSE Return("export_to_geojson")
        /\ UNCHANGED <<storeVars, similarVars, instancesVars, snapVars,
                       cliVars, guiVars>>

PipelineInit ==
    /\ run \in {Begin(1, args) : args \in PipelineArgs}
    /\ outputs \in {[dxf |-> NoOutput, geojson |-> NoOutput], OldOutputs}
    /\ StoreIdle
    /\ SimilarIdle
    /\ InstancesIdle
    /\ SnapIdle
    /\ CliIdle
    /\ GuiIdle

PipelineNext ==
    \/ \E args \in PipelineArgs : ConvertOrthophotoToDxf(args)
    \/ ReadImage
    \/ \E outcome \in StageOutcomes : DetectEdges(outcome)
    \/ \E outcome \in StageOutcomes, hough \in HoughLinesP :
          DetectLines(outcome, hough)
    \/ SnapDetectedLines
    \/ \E io \in IoOutcomes : ExportToDxf(io)
    \/ \E io \in IoOutcomes : ExportToGeojson(io)

SpecPipeline == PipelineInit /\ [][PipelineNext]_vars

(***************************************************************************)
(* SpecCli: the convert command (src/src/cli.py), from the namespace       *)
(* argparse returns to the parameters handed to the pipeline               *)
(***************************************************************************)
ParameterKeys == DOMAIN get_default_parameters

\* The values the six options are given on the command line.
GivenOptions ==
    [snap_angle |-> 30,
     low_threshold |-> 60,
     high_threshold |-> 160,
     line_threshold |-> 110,
     min_line_length |-> 90,
     max_line_gap |-> 5]

\* The namespaces parse_args returns for the convert command: each of the
\* six options is its int or, omitted, the default None of the convert
\* parser; --use-learned is given or not.
ConvertArgs ==
    {[k \in ParameterKeys \cup {"input", "use_learned"} |->
         IF k = "input" THEN PyStr(orth_2_jpg)
         ELSE IF k = "use_learned" THEN use_learned
         ELSE IF k \in given THEN PyInt(GivenOptions[k]) ELSE PyNone] :
       given \in SUBSET ParameterKeys, use_learned \in BOOLEAN}

\* The history files the command finds at --feedback-file.
CliFiles ==
    { NoFile,
      JsonFile(JArray(<<SavedEntry>>)),
      JsonFile(JArray(<<EntryRating7>>)) }

\* The six values handle_convert passes to convert_orthophoto_to_dxf,
\* learned_params being what get_suggested_parameters(image_path=args.input)
\* returns: the first branch where --use-learned is given or --snap-angle
\* is not, the else branch (the values of args as they are) otherwise.
handle_convert(args, learned_params) ==
    IF args.use_learned \/ args.snap_angle = PyNone
    THEN [k \in ParameterKeys |->
             IF args[k] # PyNone THEN args[k]
             ELSE IF k \in DOMAIN learned_params
                  THEN PyInt(learned_params[k])
                  ELSE PyInt(get_default_parameters[k])]
    ELSE [k \in ParameterKeys |-> args[k]]

\* handle_convert(args) up to the call of convert_orthophoto_to_dxf.
HandleConvert ==
    /\ cli.pc = "parsed"
    /\ cli' = [cli EXCEPT
                 !.pc = "convert",
                 !.handed =
                    handle_convert(
                       cli.args,
                       get_suggested_parameters(cli.feedback_history,
                                                cli.args.input, 4))]
    /\ UNCHANGED <<storeVars, similarVars, instancesVars, snapVars,
                   pipelineVars, guiVars>>

\* main() parses the next command line.
ParseArgs(args) ==
    /\ cli.pc = "convert"
    /\ cli' = [cli EXCEPT !.pc = "parsed", !.args = args,
                          !.handed = NotCalled]
    /\ UNCHANGED <<storeVars, similarVars, instancesVars, snapVars,
                   pipelineVars, guiVars>>

CliInit ==
    /\ \E args \in ConvertArgs, f \in CliFiles :
          cli = [pc |-> "parsed", args |-> args,
                 feedback_history |->
                    load_feedback(f, InstanceNow).feedback_history,
                 handed |-> NotCalled]
    /\ StoreIdle
    /\ SimilarIdle
    /\ InstancesIdle
    /\ SnapIdle
    /\ PipelineIdle
    /\ GuiIdle

CliNext ==
    \/ HandleConvert
    \/ \E args \in ConvertArgs : ParseArgs(args)

SpecCli == CliInit /\ [][CliNext]_vars

(***************************************************************************)
(* SpecGui: the window of src/src/gui.py.  The interaction thread runs     *)
(* the handlers of the user's clicks and edits and process_queue, each to  *)
(* its end; every click on Convert that passes start_conversion starts a   *)
(* worker thread, whose statements interleave with the handlers and with   *)
(* the other workers' statements.  The messages that only write to the     *)
(* status text ("log", "clear") are left out of the queue.  The window     *)
(* stays open.                                                             *)
(***************************************************************************)
MaxConversions == 2

Workers == 1..MaxConversions

\* What the user may have in the entry fields: the input path and the six
\* parameters, of which snap_angle stands for all.
FieldValues ==
    { [image_path |-> orth_1_jpg, snap_angle |-> 15],
      [image_path |-> orth_2_jpg, snap_angle |-> 30] }

Message(type, w) == [type |-> type, worker |-> w]

\* The worker is inside run_conversion.
InRunConversion(w) ==
    workers[w].pc \in {"run_conversion", "convert", "store",
                       "enable_feedback", "success"}

\* start_conversion without the test of is_running and leaving the
\* Convert button as it is.
StartConversionUnguarded(valid) ==
    /\ gui.convert_button = "normal"
    /\ IF ~valid
       THEN /\ gui' = [gui EXCEPT !.dialog = "error"]
            /\ UNCHANGED workers
       ELSE /\ gui.started < MaxConversions
            /\ gui' = [gui EXCEPT !.progress = "started",
                                  !.is_running = TRUE,
                                  !.started = @ + 1,
                                  !.dialog = "none"]
            /\ workers' = [workers EXCEPT
                              ![gui.started + 1].pc = "run_conversion"]
    /\ UNCHANGED <<message_queue, storeVars, similarVars, instancesVars,
                   snapVars, pipelineVars, cliVars>>

\* A click on the Convert button, which takes clicks while its state is
\* normal: start_conversion.  valid is what validate_inputs returns.
StartConversion(valid) ==
    /\ gui.convert_button = "normal"
    /\ IF ~valid
       THEN /\ gui' = [gui EXCEPT !.dialog = "error"]
            /\ UNCHANGED workers
       ELSE IF gui.is_running
       THEN /\ gui' = [gui EXCEPT !.dialog = "warning"]
            /\ UNCHANGED workers
       ELSE /\ gui.started < MaxConversions
            /\ gui' = [gui EXCEPT !.convert_button = "disabled",
                                  !.progress = "started",
                                  !.is_running = TRUE,
                                  !.started = @ + 1,
                                  !.dialog = "none"]
            /\ workers' = [workers EXCEPT
                              ![gui.started + 1].pc = "run_conversion"]
    /\ UNCHANGED <<message_queue, storeVars, similarVars, instancesVars,
                   snapVars, pipelineVars, cliVars>>

\* The user types into the entry fields, which stay enabled.
EditFields(values) ==
    /\ gui.fields # values
    /\ gui' = [gui EXCEPT !.fields = values]
    /\ UNCHANGED <<workers, message_queue, storeVars, similarVars,
                   instancesVars, snapVars, pipelineVars, cliVars>>

\* run_conversion up to the call of convert_orthophoto_to_dxf, whose
\* arguments are read from the fields.  args holds them for as long as
\* run_conversion is running.
RunConversion(w) ==
    /\ workers[w].pc = "run_conversion"
    /\ workers' = [workers EXCEPT ![w].pc = "convert",
                                  ![w].args = gui.fields]
    /\ UNCHANGED <<gui, message_queue, storeVars, similarVars,
                   instancesVars, snapVars, pipelineVars, cliVars>>

\* convert_orthophoto_to_dxf returns its result or raises.
Convert(w, outcome) ==
    /\ workers[w].pc = "convert"
    /\ workers' = [workers EXCEPT
                      ![w].pc = IF outcome = "ok" THEN "store" ELSE "except",
                      ![w].outcome = outcome]
    /\ UNCHANGED <<gui, message_queue, storeVars, similarVars,
                   instancesVars, snapVars, pipelineVars, cliVars>>

\* self.last_result = result; self.last_parameters = {...}: the fields are
\* read again.
StoreLast(w) ==
    /\ workers[w].pc = "store"
    /\ gui' = [gui EXCEPT !.last_result = w,
                          !.last_parameters = gui.fields]
    /\ workers' = [workers EXCEPT ![w].pc = "enable_feedback"]
    /\ UNCHANGED <<message_queue, storeVars, similarVars, instancesVars,
                   snapVars, pipelineVars, cliVars>>

\* self.message_queue.put(("enable_feedback", ...))
PutEnableFeedback(w) ==
    /\ workers[w].pc = "enable_feedback"
    /\ message_queue' = Append(message_queue, Message("enable_feedback", w))
    /\ workers' = [workers EXCEPT ![w].pc = "success"]
    /\ UNCHANGED <<gui, storeVars, similarVars, instancesVars, snapVars,
                   pipelineVars, cliVars>>

\* self.message_queue.put(("success", ...)), after which run_conversion
\* returns and the arguments of its call are gone.
PutSuccess(w) ==
    /\ workers[w].pc = "success"
    /\ message_queue' = Append(message_queue, Message("success", w))
    /\ workers' = [workers EXCEPT ![w].pc = "finally", ![w].args = PyNone]
    /\ UNCHANGED <<gui, storeVars, similarVars, instancesVars, snapVars,
                   pipelineVars, cliVars>>

\* The except clause of run_conversion_safe.
PutError(w) ==
    /\ workers[w].pc = "except"
    /\ message_queue' = Append(message_queue, Message("error", w))
    /\ workers' = [workers EXCEPT ![w].pc = "finally", ![w].args = PyNone]
    /\ UNCHANGED <<gui, storeVars, similarVars, instancesVars, snapVars,
                   pipelineVars, cliVars>>

\* The finally clause of run_conversion_safe: self.is_running = False
ClearIsRunning(w) ==
    /\ workers[w].pc = "finally"
    /\ gui' = [gui EXCEPT !.is_running = FALSE]
    /\ workers' = [workers EXCEPT ![w].pc = "cleanup"]
    /\ UNCHANGED <<message_queue, storeVars, similarVars, instancesVars,
                   snapVars, pipelineVars, cliVars>>

\* self.message_queue.put(("cleanup", ...)) of the finally clause
PutCleanup(w) ==
    /\ workers[w].pc = "cleanup"
    /\ message_queue' = Append(message_queue, Message("cleanup", w))
    /\ workers' = [workers EXCEPT ![w].pc = "stop_progress"]
    /\ UNCHANGED <<gui, storeVars, similarVars, instancesVars, snapVars,
                   pipelineVars, cliVars>>

\* The last statement of the worker, which never puts stop_progress.
EndWithoutStopProgress(w) ==
    /\ workers[w].pc = "stop_progress"
    /\ workers' = [workers EXCEPT ![w].pc = "finished"]
    /\ UNCHANGED <<gui, message_queue, storeVars, similarVars,
                   instancesVars, snapVars, pipelineVars, cliVars>>

\* self.message_queue.put(("stop_progress", ...)) of the finally clause
PutStopProgress(w) ==
    /\ workers[w].pc = "stop_progress"
    /\ message_queue' = Append(message_queue, Message("stop_progress", w))
    /\ workers' = [workers EXCEPT ![w].pc = "finished"]
    /\ UNCHANGED <<gui, storeVars, similarVars, instancesVars, snapVars,
                   pipelineVars, cliVars>>

\* process_queue: the callbacks of the messages in the queue are run in
\* order until get_nowait finds it empty.
ProcessQueue ==
    LET types == {message_queue[i].type : i \in DOMAIN message_queue}
    IN  /\ message_queue # <<>>
        /\ gui' = [gui EXCEPT
                     !.feedback_button =
                        IF "enable_feedback" \in types THEN "normal" ELSE @,
                     !.convert_button =
                        IF "cleanup" \in types THEN "normal" ELSE @,
                     !.progress =
                        IF "stop_progress" \in types THEN "stopped" ELSE @,
                     !.applied =
                        @ \cup {message_queue[i] : i \in DOMAIN message_queue}]
        /\ message_queue' = <<>>
        /\ UNCHANGED <<workers, storeVars, similarVars, instancesVars,
                       snapVars, pipelineVars, cliVars>>

\* A click on the feedback button and on Submit in its dialog:
\* add_feedback is called with the values of last_parameters.
SubmitFeedback ==
    /\ gui.feedback_button = "normal"
    /\ gui.last_result # 0 /\ gui.last_parameters # PyNone
    /\ gui' = [gui EXCEPT !.feedback_button = "disabled",
                          !.feedback = gui.last_parameters]
    /\ UNCHANGED <<workers, message_queue, storeVars, similarVars,
                   instancesVars, snapVars, pipelineVars, cliVars>>

GuiInit ==
    /\ \E values \in FieldValues :
          gui = [is_running |-> FALSE, convert_button |-> "normal",
                 feedback_button |-> "disabled", progress |-> "stopped",
                 fields |-> values, last_result |-> 0,
                 last_parameters |-> PyNone, started |-> 0,
                 dialog |-> "none", applied |-> {}, feedback |-> NotCalled]
    /\ workers = [w \in Workers |->
                     [pc |-> "idle", args |-> PyNone, outcome |-> "none"]]
    /\ message_queue = <<>>
    /\ StoreIdle
    /\ SimilarIdle
    /\ InstancesIdle
    /\ SnapIdle
    /\ PipelineIdle
    /\ CliIdle

\* The statements of worker w.
WorkerNext(w) ==
    \/ RunConversion(w)
    \/ \E outcome \in {"ok", "error"} : Convert(w, outcome)
    \/ StoreLast(w)
    \/ PutEnableFeedback(w)
    \/ PutSuccess(w)
    \/ PutError(w)
    \/ ClearIsRunning(w)
    \/ PutCleanup(w)
    \/ PutStopProgress(w)

GuiNext ==
    \/ \E valid \in BOOLEAN : StartConversion(valid)
    \/ \E values \in FieldValues : EditFields(values)
    \/ \E w \in Workers : RunConversion(w)
    \/ \E w \in Workers, outcome \in {"ok", "error"} : Convert(w, outcome)
    \/ \E w \in Workers : StoreLast(w)
    \/ \E w \in Workers : PutEnableFeedback(w)
    \/ \E w \in Workers : PutSuccess(w)
    \/ \E w \in Workers : PutError(w)
    \/ \E w \in Workers : ClearIsRunning(w)
    \/ \E w \in Workers : PutCleanup(w)
    \/ \E w \in Workers : PutStopProgress(w)
    \/ ProcessQueue
    \/ SubmitFeedback

SpecGui == GuiInit /\ [][GuiNext]_vars

\* The threads keep running: every started worker goes on to its next
\* statement, and root.after(100, self.process_queue) calls process_queue
\* again as long as the window exists.
SpecGuiFair ==
    /\ SpecGui
    /\ \A w \in Workers : WF_vars(WorkerNext(w))
    /\ WF_vars(ProcessQueue)

(***************************************************************************)
(* Properties                                                              *)
(***************************************************************************)
IsPrefix(s, t) == Len(s) <= Len(t) /\ SubSeq(t, 1, Len(s)) = s

AddFeedbackRaised(exception) ==
    call.op = "add_feedback" /\ call.raised = exception

\* C1: add_feedback with a rating outside 1..5 raises ValueError and leaves
\* the in-memory history and the history file as they were before the call.
C1_InvalidRatingRejected ==
    [][(call'.op = "add_feedback" /\ call'.args.rating \notin 1..5)
          => /\ call'.raised = "ValueError"
             /\ feedback_history' = feedback_history
             /\ file' = file]_vars

\* A call with rating 0 or 6 was refused on a store that holds an entry and
\* has a history file.
C1_Witness ==
    /\ AddFeedbackRaised("ValueError")
    /\ call.args.rating \in {0, 6}
    /\ feedback_history # <<>>
    /\ file.exists

\* C2: every entry held in the feedback history has a rating in 1..5,
\* however the entry arrived (add_feedback or the history file).
C2_StoredRatingsInRange ==
    \A i \in DOMAIN feedback_history : feedback_history[i].rating \in 1..5

\* C3: after a successful add_feedback the file holds the whole in-memory
\* history: load_feedback reads back the same entries in the same order
\* with the same fields, and so a LearningSystem constructed next on the
\* file starts with a history equal to that of the store that wrote it.
C3_ReloadEqualsMemory ==
    [][/\ (call'.op = "add_feedback" /\ call'.raised = NoException)
            => \A now \in Timestamps :
                  /\ load_feedback(file', now).raised = NoException
                  /\ load_feedback(file', now).feedback_history
                        = feedback_history'
       /\ (AddFeedbackRaised(NoException) /\ call'.op = "__init__")
            => constructed' /\ feedback_history' = feedback_history]_vars

\* A successful add_feedback has written a history of two entries, one with
\* notes and one without, to the file.
C3_Witness ==
    /\ AddFeedbackRaised(NoException)
    /\ Len(feedback_history) = 2
    /\ \E i, j \in DOMAIN feedback_history :
          /\ feedback_history[i].user_notes = PyNone
          /\ feedback_history[j].user_notes # PyNone
    /\ file.exists /\ file.wellformed /\ Len(file.json.v) = 2

(***************************************************************************)
(* The suggestion as the specification words it, over the positions of the *)
(* history the last get_suggested_parameters call saw (the call leaves the *)
(* history as it is).                                                      *)
(***************************************************************************)
Suggested == call.op = "get_suggested_parameters"

SixKeys == {"snap_angle", "low_threshold", "high_threshold",
            "line_threshold", "min_line_length", "max_line_gap"}

\* The entries rated min_rating or better.
Qualifying == {i \in DOMAIN feedback_history :
                  feedback_history[i].rating >= call.min_rating}

\* The qualifying entries whose image is similar to path.
SimilarQualifying(path) ==
    {i \in Qualifying :
        is_similar_image(feedback_history[i].image_path, path)}

\* The entries averaged when the similar ones are preferred for path.
PreferSimilar(path) ==
    IF SimilarQualifying(path) # {} THEN SimilarQualifying(path)
    ELSE Qualifying

\* The entries the call averaged: an image_path that is None or empty
\* selects nothing.
Selected ==
    IF Truthy(call.image_path) THEN PreferSimilar(call.image_path.v)
    ELSE Qualifying

\* The entries among S that hold a number for key.
WithNumber(S, key) ==
    {i \in S : /\ key \in DOMAIN feedback_history[i].parameters
               /\ feedback_history[i].parameters[key].t = "int"}

RECURSIVE Total(_, _)
Total(S, key) ==
    IF S = {} THEN 0
    ELSE LET i == CHOOSE j \in S : TRUE
         IN  feedback_history[i].parameters[key].v + Total(S \ {i}, key)

\* q is total / n with the fraction dropped.
IsTruncatedQuotient(q, total, n) ==
    IF total >= 0
    THEN q * n <= total /\ total < (q + 1) * n
    ELSE q * n >= total /\ total > (q - 1) * n

\* q is the truncated mean of key over the entries of S that hold a number.
IsTruncatedMean(q, S, key) ==
    IsTruncatedQuotient(q, Total(WithNumber(S, key), key),
                        Cardinality(WithNumber(S, key)))

\* ret is the suggestion drawn from the entries S: the truncated mean for a
\* key some entry of S holds a number for, the default for any other of
\* the six keys, and nothing else.
IsSuggestionFrom(ret, S) ==
    /\ DOMAIN ret = SixKeys \cup
          {k \in UNION {DOMAIN feedback_history[i].parameters : i \in S} :
              WithNumber(S, k) # {}}
    /\ \A k \in DOMAIN ret :
          IF WithNumber(S, k) # {}
          THEN IsTruncatedMean(ret[k], S, k)
          ELSE ret[k] = [snap_angle |-> 15, low_threshold |-> 50,
                         high_threshold |-> 150, line_threshold |-> 100,
                         min_line_length |-> 100, max_line_gap |-> 10][k]

\* C4: get_suggested_parameters returns exactly the hard-coded defaults when
\* the history is empty or holds no entry rated min_rating or better, with
\* or without an image_path.
C4_DefaultsWhenNoneQualify ==
    (Suggested /\ (feedback_history = <<>> \/ Qualifying = {}))
        => call.ret = [snap_angle |-> 15, low_threshold |-> 50,
                       high_threshold |-> 150, line_threshold |-> 100,
                       min_line_length |-> 100, max_line_gap |-> 10]

\* A call with an image_path on a history whose only entries are rated
\* below min_rating.
C4_Witness ==
    /\ Suggested
    /\ Truthy(call.image_path)
    /\ feedback_history # <<>>
    /\ Qualifying = {}
    /\ call.ret.snap_angle = 15

\* C5: when an entry qualifies, every key for which a selected entry holds
\* a number is suggested as the mean of those numbers truncated to an
\* integer; entries rated below min_rating are not among the selected.
C5_TruncatedMeanOfSelected ==
    (Suggested /\ Qualifying # {})
        => \A k \in UNION {DOMAIN feedback_history[i].parameters :
                              i \in Selected} :
              WithNumber(Selected, k) # {}
                 => /\ k \in DOMAIN call.ret
                    /\ IsTruncatedMean(call.ret[k], Selected, k)

\* Two selected entries with snap_angle 10 and -15: the mean -2.5 is
\* suggested as -2.
C5_Witness ==
    /\ Suggested
    /\ Cardinality(Selected) = 2
    /\ {feedback_history[i].parameters.snap_angle.v : i \in Selected}
          = {10, -15}
    /\ call.ret.snap_angle = -2

\* One entry qualifies and one is rated below min_rating: the suggestion is
\* the qualifying entry's snap_angle.
C5_WitnessLowRatingIgnored ==
    /\ Suggested
    /\ Cardinality(Qualifying) = 1
    /\ Len(feedback_history) = 2
    /\ \E i \in Qualifying :
          call.ret.snap_angle = feedback_history[i].parameters.snap_angle.v

\* C6 as amended: given an image_path that is not empty, the suggestion is
\* drawn from exactly the qualifying entries similar to it when there is
\* one, and from all qualifying entries otherwise (never the defaults while
\* an entry qualifies).
C6_SimilarPreferredElseAllQualifying ==
    (Suggested /\ Truthy(call.image_path) /\ Qualifying # {})
        => IsSuggestionFrom(call.ret, PreferSimilar(call.image_path.v))

\* Asked for orth_2.jpg with a qualifying entry of orth_1.jpg (snap_angle
\* 10) and a qualifying entry of other.jpg (snap_angle 15): 10 is suggested.
C6_Witness ==
    /\ Suggested
    /\ call.image_path = PyStr(orth_2_jpg)
    /\ \E i, j \in Qualifying :
          /\ feedback_history[i].image_path = orth_1_jpg
          /\ feedback_history[i].parameters.snap_angle = PyInt(10)
          /\ feedback_history[j].image_path = other_jpg
          /\ feedback_history[j].parameters.snap_angle = PyInt(15)
    /\ call.ret.snap_angle = 10

\* Asked for orth_2.jpg, to which no qualifying entry is similar: all
\* qualifying entries are averaged.
C6_WitnessFallback ==
    /\ Suggested
    /\ call.image_path = PyStr(orth_2_jpg)
    /\ Cardinality(Qualifying) = 2
    /\ SimilarQualifying(orth_2_jpg) = {}
    /\ call.ret.snap_angle = 17

\* C6 as claimed: given any image_path (any value but None), the suggestion
\* is drawn from the qualifying entries similar to it when there is one,
\* and from all qualifying entries otherwise.  (Stated for histories whose
\* ratings are all in 1..5.)
C6_AsClaimed ==
    (/\ Suggested /\ call.image_path # PyNone /\ Qualifying # {}
     /\ \A i \in DOMAIN feedback_history : feedback_history[i].rating \in 1..5)
        => IsSuggestionFrom(call.ret, PreferSimilar(call.image_path.v))

\* C7: the suggestion always holds all six keys; a key no selected entry
\* holds takes its default, a key a selected entry holds a number for takes
\* the truncated mean.
C7_MissingKeysTakeDefaults ==
    Suggested
        => \A k \in SixKeys :
              /\ k \in DOMAIN call.ret
              /\ (\A i \in Selected : k \notin DOMAIN feedback_history[i].parameters)
                    => call.ret[k] = [snap_angle |-> 15, low_threshold |-> 50,
                                      high_threshold |-> 150,
                                      line_threshold |-> 100,
                                      min_line_length |-> 100,
                                      max_line_gap |-> 10][k]
              /\ (Qualifying # {} /\ WithNumber(Selected, k) # {})
                    => IsTruncatedMean(call.ret[k], Selected, k)

\* The selected entries hold snap_angle and low_threshold only: both are
\* averaged and the four other keys take their defaults.
C7_Witness ==
    /\ Suggested
    /\ Selected # {}
    /\ UNION {DOMAIN feedback_history[i].parameters : i \in Selected}
          = {"snap_angle", "low_threshold"}
    /\ call.ret.snap_angle = 12
    /\ call.ret.low_threshold = 40
    /\ call.ret.high_threshold = 150
    /\ call.ret.line_threshold = 100
    /\ call.ret.min_line_length = 100
    /\ call.ret.max_line_gap = 10

(***************************************************************************)
(* Properties of _is_similar_image (SpecSimilar)                           *)
(***************************************************************************)
\* The first token of a name: what precedes its first separator.
FirstToken(name) ==
    LET at == {i \in DOMAIN name : name[i] \in {"_", "-", " ", "."}}
    IN  IF at = {} THEN name
        ELSE SubSeq(name, 1, (CHOOSE i \in at : \A j \in at : i <= j) - 1)

\* The rule of similarity on two extension-less names.
SimilarByRule(name1, name2) ==
    IF FirstToken(name1) = FirstToken(name2) /\ Len(FirstToken(name1)) >= 4
    THEN TRUE
    ELSE name1 = name2

\* C8 as amended: two paths are judged similar exactly when the first
\* tokens of their lower-cased extension-less file names are equal and at
\* least 4 characters long, and in every other case exactly when the
\* lower-cased extension-less names are equal.
C8_SimilarIgnoringCase ==
    similar.called
        => similar.ret = SimilarByRule(lower(stem(path1)), lower(stem(path2)))

\* orth_1.jpg and orth_2.jpg were judged similar: different names, the same
\* first token of 4 characters.
C8_Witness ==
    /\ similar.called
    /\ path1 = orth_1_jpg
    /\ path2 = orth_2_jpg
    /\ similar.ret

\* C8 as claimed: the first tokens, and failing that the names, match
\* exactly as they are written.
C8_AsClaimed ==
    similar.called => similar.ret = SimilarByRule(stem(path1), stem(path2))

(***************************************************************************)
(* Properties of construction and of the history's growth (Spec)           *)
(***************************************************************************)
\* The file holds an array of feedback entries: objects with image_path,
\* parameters and rating.
IsHistoryFile(f) ==
    /\ f.exists /\ f.wellformed /\ f.json.t = "array"
    /\ \A i \in DOMAIN f.json.v :
          /\ f.json.v[i].t = "object"
          /\ {"image_path", "parameters", "rating"} \subseteq DOMAIN f.json.v[i].v

\* C9: constructing a LearningSystem never fails because of the file's
\* content: no exception leaves the constructor, and a missing file or a
\* file that is not an array of feedback entries gives an empty history.
\* (The constructor only reads the file.)
C9_ConstructionNeverFails ==
    call.op = "__init__"
        => /\ call.raised = NoException
           /\ constructed
           /\ ~IsHistoryFile(file) => feedback_history = <<>>

C11_ClearEmptiesMemoryAndFile ==
    [][/\ call'.op = "clear_history"
            => /\ feedback_history' = <<>>
               /\ ~file'.exists
               /\ get_statistics(feedback_history').total_feedback = 0
               /\ \A now \in Timestamps :
                     /\ load_feedback(file', now).raised = NoException
                     /\ load_feedback(file', now).feedback_history = <<>>
       /\ (call.op = "clear_history" /\ call'.op = "get_statistics")
            => call'.ret.total_feedback = 0
       /\ (call.op = "clear_history" /\ call'.op = "__init__")
            => /\ constructed'
               /\ call'.raised = NoException
               /\ feedback_history' = <<>>]_vars

\* clear_history has removed a history file that was there.
C11_Witness ==
    /\ call.op = "clear_history"
    /\ call.existed
    /\ feedback_history = <<>>
    /\ file = NoFile

\* clear_history has run where there was no history file.
C11_WitnessNoFile ==
    /\ call.op = "clear_history"
    /\ ~call.existed
    /\ file = NoFile

(***************************************************************************)
(* The statistics as the specification words them, over the history the    *)
(* last get_statistics call saw (the call leaves the history as it is).    *)
(***************************************************************************)
Reported == call.op = "get_statistics"

Rated(r) == {i \in DOMAIN feedback_history : feedback_history[i].rating = r}

RECURSIVE RatingTotal(_)
RatingTotal(S) ==
    IF S = {} THEN 0
    ELSE LET i == CHOOSE j \in S : TRUE
         IN  feedback_history[i].rating + RatingTotal(S \ {i})

\* The part of the report that does not depend on the histogram: the number
\* of entries, the mean of their ratings (0 when there is none) and the
\* timestamp of the last entry (None when there is none).
TotalMeanAndMostRecent ==
    LET n == Len(feedback_history)
        ret == call.ret
    IN  /\ ret.total_feedback = n
        /\ ret.average_rating.den > 0
        /\ IF n = 0
           THEN /\ ret.average_rating.num = 0
                /\ ret.most_recent = PyNone
           ELSE /\ ret.average_rating.num * n
                     = RatingTotal(DOMAIN feedback_history)
                          * ret.average_rating.den
                /\ ret.most_recent = PyStr(feedback_history[n].timestamp)

\* The count the histogram gives for r, read as the callers read it
\* (rating_distribution.get(r, 0)): the empty history's histogram {} gives
\* 0 for every r.
HistogramAt(histogram, r) ==
    IF r \in DOMAIN histogram THEN histogram[r] ELSE 0

RECURSIVE HistogramTotal(_, _)
HistogramTotal(histogram, R) ==
    IF R = {} THEN 0
    ELSE LET r == CHOOSE q \in R : TRUE
         IN  HistogramAt(histogram, r) + HistogramTotal(histogram, R \ {r})

\* C12: for every history get_statistics returns the number of entries,
\* the mean of their ratings (0 when empty), the timestamp of the last
\* entry (None when empty) and a histogram that gives, for each r in 1..5,
\* the number of entries rated r, so that its counts sum to the total.
C12_StatisticsOfHistory ==
    Reported
       => /\ TotalMeanAndMostRecent
          /\ LET histogram == call.ret.rating_distribution
             IN  /\ \A r \in 1..5 :
                       HistogramAt(histogram, r) = Cardinality(Rated(r))
                 /\ HistogramTotal(histogram, 1..5) = call.ret.total_feedback

\* What holds of every report: total, mean and timestamp, and each count
\* of the histogram taken alone.
C12_AllButTheSum ==
    Reported
       => /\ TotalMeanAndMostRecent
          /\ \A r \in 1..5 :
                HistogramAt(call.ret.rating_distribution, r)
                   = Cardinality(Rated(r))

\* The entries load_feedback reads from the file at path p.
Persisted(p) ==
    LET history == load_feedback(files[p], InstanceNow).feedback_history
    IN  {history[i] : i \in DOMAIN history}

C13_AsClaimedSerialized ==
    (serialized /\ \A s \in Stores : stores[s].pc = "idle")
       => \A p \in Paths : recorded[p] \subseteq Persisted(p)

\* C18: for a snap_angle that divides 360, angle snapping applied to
\* the segments it returned returns the same segments again, whether the
\* list is passed as it is or put back into the shape of the array.
C18_SnapIdempotent ==
    (/\ resnapped.called
     /\ grid_size = PyNone
     /\ snap_angle # 0 /\ 360 % snap_angle = 0)
       => /\ resnapped.raised = NoException
          /\ resnapped.ret = snapped.ret

\* The same for the second application on the array shape alone, where
\* no TypeError stands in the way.
C18_SnapIdempotentOnArray ==
    (/\ resnapped.called /\ resnapped.how = "array"
     /\ grid_size = PyNone
     /\ snap_angle # 0 /\ 360 % snap_angle = 0)
       => /\ resnapped.raised = NoException
          /\ resnapped.ret = snapped.ret

\* The segment (0, 0, 1, 4) snapped to 15 degrees is (0, 0, 1, 3), which
\* snapped again is (0, 0, 0, 3).
C18_WitnessDrift ==
    /\ lines = Rows(<< <<(<<0, 0, 1, 4>>)>> >>)
    /\ snap_angle = 15
    /\ grid_size = PyNone
    /\ snapped.called /\ snapped.ret = << <<0, 0, 1, 3>> >>
    /\ resnapped.called /\ resnapped.how = "array"
    /\ resnapped.ret = << <<0, 0, 0, 3>> >>

\* The coordinates of a snap_lines outcome, as pairs <<i, c>> of the
\* segment's position and the coordinate's.
Coordinates(outcome) == (DOMAIN outcome.ret) \X (1..4)

\* v is a multiple of g nearest to w.
IsNearestMultiple(v, g, w) ==
    /\ v % abs(g) = 0
    /\ 2 * abs(v - w) <= abs(g)

\* C19: snap_lines with a grid_size g other than 0 returns segments all of
\* whose coordinates are multiples of g, each a multiple of g nearest to
\* the coordinate angle snapping had left there; an empty sequence is
\* returned as it is.
C19_GridMultiples ==
    (/\ snapped.called /\ snapped.raised = NoException
     /\ grid_size # PyNone /\ grid_size # PyInt(0))
       => /\ DOMAIN snapped.ret = DOMAIN snapped.angled
          /\ \A ic \in Coordinates(snapped) :
                IsNearestMultiple(snapped.ret[ic[1]][ic[2]], grid_size.v,
                                  snapped.angled[ic[1]][ic[2]])

\* Two segments were snapped to a grid of 2, one coordinate moving up to
\* the even multiple and one moving down.
C19_Witness ==
    /\ snapped.called /\ snapped.raised = NoException
    /\ grid_size = PyInt(2)
    /\ Len(snapped.ret) = 2
    /\ \E ic \in Coordinates(snapped) :
          snapped.ret[ic[1]][ic[2]] = snapped.angled[ic[1]][ic[2]] + 1
    /\ \E ic \in Coordinates(snapped) :
          snapped.ret[ic[1]][ic[2]] = snapped.angled[ic[1]][ic[2]] - 1

\* C19 as the specification has it: for every grid size g, 0 included,
\* snap_lines on segments that angle snapping accepts returns segments
\* whose coordinates are multiples of g.
C19_AsClaimed ==
    (/\ snapped.called
     /\ grid_size # PyNone
     /\ snap_angle # 0)
       => /\ snapped.raised = NoException
          /\ \A ic \in Coordinates(snapped) :
                \E k \in -20..20 :
                   snapped.ret[ic[1]][ic[2]] = k * grid_size.v


\* The statements of convert_orthophoto_to_dxf in the order they stand.
StageOrder ==
    <<"read_image", "detect_edges", "detect_lines", "snap_lines",
      "export_to_dxf", "export_to_geojson">>

Stages == {StageOrder[i] : i \in DOMAIN StageOrder}

\* The run the step belongs to goes on: no new call was entered.
SameRun == run'.n = run.n

\* C14: the stages of a run execute in the order read_image, detect_edges,
\* detect_lines, snap_lines, export_to_dxf and, only where a GeoJSON path
\* was given, export_to_geojson; a stage starts only when all the stages
\* before it have returned; the first stage that raises ends the run with
\* its exception, no stage executes after it and no result is returned; a
\* result is returned only after export_to_dxf and every stage before it.
C14_StagesInOrder ==
    [][/\ run.pc \in Stages =>
            /\ SameRun
            /\ run.raised = NoException
            /\ run.result = PyNone
            /\ run.pc = StageOrder[Len(run.executed) + 1]
            /\ IsPrefix(run.executed, StageOrder)
            /\ run'.executed = Append(run.executed, run.pc)
            /\ \/ /\ run'.pc = "failed"
                  /\ run'.raised # NoException
                  /\ run'.result = PyNone
               \/ /\ run'.raised = NoException
                  /\ \/ /\ Len(run'.executed) < Len(StageOrder)
                        /\ run'.pc = StageOrder[Len(run'.executed) + 1]
                        /\ run'.result = PyNone
                     \/ /\ run'.pc = "done"
                        /\ run'.result # PyNone
                        /\ Len(run'.executed) >= 5
                  /\ run'.pc = "export_to_geojson"
                        => run.args.geojson_output_path # PyNone
       /\ run.pc \in {"failed", "done"} =>
            /\ ~SameRun
            /\ run'.pc = "read_image"
            /\ run'.executed = <<>>]_vars

\* A run failed in snap_lines, after three stages had returned.
C14_Witness ==
    /\ run.pc = "failed"
    /\ run.executed = <<"read_image", "detect_edges", "detect_lines",
                        "snap_lines">>

\* A run with a GeoJSON path returned its result after all six stages.
C14_WitnessSixStages ==
    /\ run.pc = "done"
    /\ run.executed = StageOrder

\* C15: when export_to_geojson raises, the DXF file export_to_dxf wrote in
\* the same run stays as written and the run ends with the exception and
\* without a result; in a run whose geojson_output_path is None the file
\* at the GeoJSON path is never touched and the result's geojson_path is
\* None.
C15_NoRollback ==
    [][/\ (run.pc = "export_to_geojson" /\ run'.pc = "failed") =>
            /\ outputs.dxf = OutputFile(dxf_document(run.snapped_lines))
            /\ outputs'.dxf = outputs.dxf
            /\ run'.raised # NoException
            /\ run'.result = PyNone
       /\ (run.args.geojson_output_path = PyNone /\ SameRun) =>
            /\ outputs'.geojson = outputs.geojson
            /\ run'.pc = "done" => run'.result.geojson_path = PyNone]_vars

\* export_to_geojson raised in a run that had written a DXF file with a
\* line in it.
C15_Witness ==
    /\ run.pc = "failed"
    /\ run.executed = StageOrder
    /\ outputs.dxf.exists
    /\ outputs.dxf.document = dxf_document(run.snapped_lines)
    /\ run.snapped_lines # <<>>

\* A run without a GeoJSON path returned and there is no GeoJSON file.
C15_WitnessNoPath ==
    /\ run.pc = "done"
    /\ run.args.geojson_output_path = PyNone
    /\ outputs.dxf.exists
    /\ outputs.geojson = NoOutput

MissingOrUndecodable(args) == args.image_file \in {"missing", "undecodable"}

\* C16: a run on a missing or undecodable image ends in read_image, with
\* FileNotFoundError for the missing file and ValueError for the
\* undecodable one; no other stage runs, no result is returned and the
\* files at the two output paths are neither created nor modified.
C16_BadImageEndsRun ==
    [][/\ (MissingOrUndecodable(run.args) /\ SameRun) =>
            /\ outputs' = outputs
            /\ run'.pc = "failed"
            /\ run'.executed = <<"read_image">>
            /\ run'.raised = IF run.args.image_file = "missing"
                             THEN "FileNotFoundError"
                             ELSE "ValueError"
            /\ run'.result = PyNone
       /\ (MissingOrUndecodable(run.args) /\ ~SameRun) =>
            run.pc = "failed"]_vars

\* A run on a missing image has ended and the old output files are there.
C16_Witness ==
    /\ run.args.image_file = "missing"
    /\ run.pc = "failed"
    /\ run.raised = "FileNotFoundError"
    /\ outputs = OldOutputs

\* A run on an undecodable image has ended after a run that wrote files.
C16_WitnessUndecodable ==
    /\ run.args.image_file = "undecodable"
    /\ run.pc = "failed"
    /\ run.raised = "ValueError"
    /\ run.n = 2
    /\ outputs.dxf.exists
    /\ outputs.dxf # OldOutputs.dxf

\* C17: what snap_lines returns in a run has one segment for each
\* detected line, in the same order (each starts where its line starts),
\* and none for no lines; in every result lines_detected = len(lines)
\* equals lines_snapped = len(snapped_lines), which is the number of LINE
\* entities of the DXF file and of features of the GeoJSON file written.
C17_OneSegmentPerLine ==
    /\ run.pc \in {"export_to_dxf", "export_to_geojson", "done"} =>
          /\ Len(run.snapped_lines) = Len(run.lines.v)
          /\ \A i \in DOMAIN run.snapped_lines :
                /\ Len(run.snapped_lines[i]) = 4
                /\ run.snapped_lines[i][1] = run.lines.v[i][1][1]
                /\ run.snapped_lines[i][2] = run.lines.v[i][1][2]
    /\ run.pc = "done" =>
          /\ run.result.lines_detected = Len(run.lines.v)
          /\ run.result.lines_snapped = Len(run.snapped_lines)
          /\ run.result.lines_detected = run.result.lines_snapped
          /\ outputs.dxf.exists
          /\ Len(outputs.dxf.document.entities) = run.result.lines_snapped
          /\ "export_to_geojson" \in {run.executed[i] :
                                         i \in DOMAIN run.executed} =>
                /\ outputs.geojson.exists
                /\ Len(outputs.geojson.document.v.features.v)
                      = run.result.lines_snapped

\* A run returned a result for two lines, one of them of length 0, and
\* wrote the DXF file.
C17_Witness ==
    /\ run.pc = "done"
    /\ Len(outputs.dxf.document.entities) = 2
    /\ run.result.lines_detected = 2
    /\ run.result.lines_snapped = 2
    /\ \E i \in DOMAIN run.snapped_lines :
          /\ run.snapped_lines[i][1] = run.snapped_lines[i][3]
          /\ run.snapped_lines[i][2] = run.snapped_lines[i][4]

\* A run on an image without lines returned a result with both counts 0.
C17_WitnessNoLines ==
    /\ run.pc = "done"
    /\ run.lines.v = <<>>
    /\ run.result.lines_detected = 0
    /\ run.result.lines_snapped = 0

\* The DXF document without entities and the FeatureCollection without
\* features.
EmptyDxf == [format |-> "DXF", entities |-> <<>>]
EmptyFeatureCollection ==
    JObject([type |-> JString("FeatureCollection"),
             features |-> JArray(<<>>)])

\* C20: export_to_dxf and export_to_geojson called with no lines raise
\* nothing of their own (only the OSError of a file that cannot be
\* written leaves them) and write their file:
\* a DXF document without LINE entities, a FeatureCollection whose
\* features list is empty.
C20_EmptyExports ==
    [][/\ (run.pc = "export_to_dxf" /\ run.snapped_lines = <<>>) =>
            \/ /\ run'.raised = NoException
               /\ run'.pc # "failed"
               /\ outputs'.dxf = OutputFile(EmptyDxf)
            \/ run'.raised = "OSError"
       /\ (run.pc = "export_to_geojson" /\ run.snapped_lines = <<>>) =>
            \/ /\ run'.raised = NoException
               /\ run'.pc = "done"
               /\ outputs'.geojson = OutputFile(EmptyFeatureCollection)
            \/ run'.raised = "OSError"]_vars

\* Both exports have written their file for a run without lines, over the
\* files that were there.
C20_Witness ==
    /\ run.pc = "done"
    /\ run.snapped_lines = <<>>
    /\ run.executed = StageOrder
    /\ outputs.dxf = OutputFile(EmptyDxf)
    /\ outputs.geojson = OutputFile(EmptyFeatureCollection)


\* The feature export_to_geojson is to write for a segment.
LineStringFeature(segment) ==
    [t |-> "object",
     v |-> [type |-> [t |-> "string", v |-> "Feature"],
            geometry |->
               [t |-> "object",
                v |-> [type |-> [t |-> "string", v |-> "LineString"],
                       coordinates |->
                          [t |-> "array",
                           v |-> << [t |-> "array",
                                     v |-> <<JNumber(segment[1]),
                                             JNumber(segment[2])>>],
                                    [t |-> "array",
                                     v |-> <<JNumber(segment[3]),
                                             JNumber(segment[4])>>] >>]]],
            properties |-> [t |-> "object", v |-> <<>>]]]

\* C21: export_to_geojson, called in a run with snapped_lines and a file
\* that can be written, leaves a FeatureCollection with one feature for
\* each segment, in the order of the segments, each a LineString with the
\* coordinates [[x1, y1], [x2, y2]] and empty properties.
C21_OneFeaturePerSegment ==
    [][(run.pc = "export_to_geojson" /\ run'.raised # "OSError") =>
          /\ run'.pc = "done"
          /\ outputs'.geojson.exists
          /\ outputs'.geojson.document.t = "object"
          /\ outputs'.geojson.document.v.type = JString("FeatureCollection")
          /\ outputs'.geojson.document.v.features.t = "array"
          /\ outputs'.geojson.document.v.features.v
                = [i \in DOMAIN run.snapped_lines |->
                      LineStringFeature(run.snapped_lines[i])]]_vars

\* export_to_geojson was called with one segment and raised TypeError,
\* leaving a file that holds no JSON document.
C21_WitnessTypeError ==
    /\ run.pc = "failed"
    /\ run.executed = StageOrder
    /\ run.raised = "TypeError"
    /\ Len(run.snapped_lines) = 1
    /\ outputs.geojson = OutputFile(PartialJson)

\* What holds in its place: export_to_geojson writes the claimed document
\* when there are no segments, and otherwise fails on the numpy scalars of
\* the first segment.
C21_OnlyWithoutSegments ==
    [][(run.pc = "export_to_geojson" /\ run'.raised # "OSError") =>
          IF run.snapped_lines = <<>>
          THEN /\ run'.pc = "done"
               /\ outputs'.geojson.document.v.features.v = <<>>
          ELSE /\ run'.pc = "failed"
               /\ run'.raised = "TypeError"]_vars


\* C22: whenever detect_lines has returned in a run, what it returned is
\* a sequence and not None: the empty list, of length 0, where
\* HoughLinesP found no line, and without an exception raised in
\* detect_lines; HoughLinesP's array where it found lines.
C22_DetectLinesNeverNone ==
    run.hough # NotCalled =>
       /\ run.lines # PyNone
       /\ run.lines.shape \in {"rows", "segments"}
       /\ run.hough = PyNone =>
             /\ run.lines.v = <<>>
             /\ Len(run.lines.v) = 0
             /\ ~(run.pc = "failed" /\ Len(run.executed) = 3)
       /\ run.hough # PyNone => run.lines = run.hough

\* HoughLinesP found nothing and the run went on to its result with no
\* lines.
C22_Witness ==
    /\ run.hough = PyNone
    /\ run.pc = "done"
    /\ run.result.lines_detected = 0


\* The suggestion of the store for the image of the command.
LearnedForInput ==
    get_suggested_parameters(cli.feedback_history, cli.args.input, 4)

\* C23: each of the six parameters handle_convert hands to the pipeline is
\* the value given on the command line or, for an option left out, the
\* suggestion learned for the input image (the default without qualifying
\* history), whichever options are given; none is handed on as None.
C23_GivenElseLearned ==
    cli.pc = "convert" =>
       \A k \in ParameterKeys :
          /\ cli.handed[k] # PyNone
          /\ cli.handed[k] = IF cli.args[k] # PyNone
                             THEN cli.args[k]
                             ELSE PyInt(LearnedForInput[k])

\* --snap-angle was given without --use-learned and another option was
\* left out: None is handed to the pipeline.
C23_WitnessNone ==
    /\ cli.pc = "convert"
    /\ cli.args.snap_angle # PyNone
    /\ ~cli.args.use_learned
    /\ cli.handed.low_threshold = PyNone

\* What holds in its place: the claim's rule where --use-learned is given
\* or --snap-angle is left out, and the command line's values as they
\* are, None for every option left out, in the other case.
C23_OnlyWithoutSnapAngle ==
    cli.pc = "convert" =>
       \A k \in ParameterKeys :
          cli.handed[k] =
             IF cli.args[k] # PyNone THEN cli.args[k]
             ELSE IF cli.args.use_learned \/ cli.args.snap_angle = PyNone
             THEN PyInt(LearnedForInput[k])
             ELSE PyNone


\* m <= sqrt(n) * c / 10000 and m >= sqrt(n) * c / 10000, c being cos or
\* sin times 10000 to the nearest unit, as far as the three digits of
\* c / 10 tell.
ProjectionAtLeast(m, n, c) ==
    LET c3 == abs(c) \div 10
        low == IF c3 = 0 THEN 0 ELSE c3 - 1
    IN  IF c >= 0
        THEN m <= 0 \/ m * m * 1000000 <= n * (c3 + 1) * (c3 + 1)
        ELSE m <= 0 /\ m * m * 1000000 >= n * low * low

ProjectionAtMost(m, n, c) ==
    LET c3 == abs(c) \div 10
        low == IF c3 = 0 THEN 0 ELSE c3 - 1
    IN  IF c > 0
        THEN m >= 0 /\ m * m * 1000000 >= n * low * low
        ELSE m >= 0 \/ m * m * 1000000 <= n * (c3 + 1) * (c3 + 1)

\* q is int(p + sqrt(n) * c / 10000): the integer next to that value on
\* the side of 0.
IsTruncatedProjection(q, p, n, c) ==
    /\ ProjectionAtLeast(IF q > 0 THEN q - p ELSE q - p - 1, n, c)
    /\ ProjectionAtMost(IF q < 0 THEN q - p ELSE q - p + 1, n, c)

\* C24: in what snap_to_angles returns for an array of segments, every
\* segment keeps its first endpoint and has for second endpoint the
\* first one plus the segment's length along the orientation rounded to
\* the nearest multiple of snap_angle, with int() applied to each
\* coordinate; a segment along an axis (orientation 0, 90, 180 or 270
\* degrees, a multiple of snap_angle) is returned as it is.
C24_SecondEndpointProjected ==
    (snapped.called /\ snapped.raised = NoException) =>
       /\ DOMAIN snapped.angled = DOMAIN lines.v
       /\ \A i \in DOMAIN snapped.angled :
             LET segment == lines.v[i][1]
                 new == snapped.angled[i]
                 dx == segment[3] - segment[1]
                 dy == segment[4] - segment[2]
                 j == round_angle(dx, dy, snap_angle) * (snap_angle \div 15)
             IN  /\ new[1] = segment[1]
                 /\ new[2] = segment[2]
                 /\ IsTruncatedProjection(new[3], segment[1],
                                          dx * dx + dy * dy, cos_e4(j))
                 /\ IsTruncatedProjection(new[4], segment[2],
                                          dx * dx + dy * dy, sin_e4(j))
                 /\ ((dx = 0 \/ dy = 0) /\ 90 % snap_angle = 0)
                       => new = segment

\* snap_to_angles returned, for snap_angle 15, a segment at 180 degrees
\* as it was and a slanted one with a new second endpoint.
C24_Witness ==
    /\ snapped.called /\ snapped.raised = NoException
    /\ snap_angle = 15
    /\ lines = Rows(<< <<(<<4, 2, 1, 2>>)>>, <<(<<5, 5, 1, 2>>)>> >>)
    /\ snapped.angled[1] = <<4, 2, 1, 2>>
    /\ snapped.angled[2] # <<5, 5, 1, 2>>
    /\ snapped.angled[2][1] = 5 /\ snapped.angled[2][2] = 5

\* The messages of the workers that were put into the queue so far.
Queued == {message_queue[i] : i \in DOMAIN message_queue} \cup gui.applied

\* What holds of worker w at every moment of C25.
OnlyItsOwnMessages(w) ==
    /\ Message("success", w) \in Queued => workers[w].outcome = "ok"
    /\ Message("enable_feedback", w) \in Queued => workers[w].outcome = "ok"
    /\ Message("error", w) \in Queued => workers[w].outcome = "error"
    /\ workers[w].pc = "finished" /\ workers[w].outcome = "ok"
          => /\ Message("success", w) \in Queued
             /\ Message("enable_feedback", w) \in Queued
    /\ workers[w].pc = "finished" /\ workers[w].outcome = "error"
          => Message("error", w) \in Queued
    /\ workers[w].pc = "finished"
          => /\ Message("cleanup", w) \in Queued
             /\ Message("stop_progress", w) \in Queued
    /\ workers[w].pc = "cleanup" => ~gui.is_running
    /\ workers[w].pc \in {"stop_progress", "finished"} /\ gui.started = w
          => ~gui.is_running

\* The worker w has ended and the interaction thread has applied its
\* cleanup and stop_progress messages.
EndApplied(w) ==
    /\ workers[w].pc = "finished"
    /\ workers[w].outcome \in {"ok", "error"}
    /\ Message("cleanup", w) \in gui.applied
    /\ Message("stop_progress", w) \in gui.applied
    /\ workers[w].outcome = "ok"
          => /\ Message("success", w) \in gui.applied
             /\ Message("enable_feedback", w) \in gui.applied
    /\ workers[w].outcome = "error" => Message("error", w) \in gui.applied

C25_WitnessSuccess ==
    \E w \in Workers : EndApplied(w) /\ workers[w].outcome = "ok"

\* The workers that have been started.
Started == {w \in Workers : workers[w].pc # "idle"}

\* C26: two runs of the pipeline never execute at the same time:
\* start_conversion starts a worker only when is_running is false and no
\* worker is inside run_conversion, and a call made while is_running is
\* true shows the warning and starts nothing.
C26_OneConversionAtATime ==
    [][ /\ \A v, w \in Workers :
              InRunConversion(v) /\ InRunConversion(w) => v = w
        /\ Started' # Started
              => /\ ~gui.is_running
                 /\ \A w \in Workers : ~InRunConversion(w)
                 /\ \E w \in Workers : Started' = Started \cup {w}
        /\ gui.is_running => Started' = Started
        /\ gui'.dialog = "warning" /\ gui.dialog # "warning"
              => gui.is_running /\ Started' = Started
      ]_vars

\* The second conversion is running while the first worker has not ended.
C26_Witness ==
    /\ workers[1].pc = "stop_progress"
    /\ workers[2].pc = "convert"
    /\ gui.is_running

\* C27: last_parameters, stored after a successful conversion, holds the
\* image path and the parameters that were passed to that conversion,
\* whatever the user typed into the fields while it was running, and the
\* feedback submitted afterwards records the values of last_parameters.
C27_LastParametersArePassed ==
    [][ /\ \A w \in Workers :
              workers[w].pc = "store" /\ workers'[w].pc # "store"
                 => gui'.last_parameters = workers[w].args
        /\ gui'.feedback # gui.feedback
              => gui'.feedback = gui.last_parameters
      ]_vars

\* The fields were edited during the conversion and last_parameters holds
\* the edited values.
C27_WitnessEdited ==
    \E w \in Workers :
       /\ workers[w].pc = "enable_feedback"
       /\ gui.last_result = w
       /\ gui.last_parameters # workers[w].args
       /\ gui.last_parameters = gui.fields

\* What the code keeps of C27: last_parameters holds the values the
\* fields have when the conversion has returned.
C27_FieldsAfterConversion ==
    [][ /\ \A w \in Workers :
              workers[w].pc = "store" /\ workers'[w].pc # "store"
                 => gui'.last_parameters = gui.fields /\ gui'.last_result = w
        /\ gui'.feedback # gui.feedback
              => gui'.feedback = gui.last_parameters
      ]_vars

\* A conversion is running: from start_conversion to the end of the
\* worker's run_conversion, or for as long as is_running is set.
ConversionRunning ==
    gui.is_running \/ \E w \in Workers : InRunConversion(w)

\* C28: the cleanup and stop_progress messages of a conversion are
\* applied before any later conversion starts, and while a conversion is
\* running the Convert button is disabled and the progress indicator is
\* active.
C28_EndAppliedBeforeNextStart ==
    /\ \A w \in Workers :
          w > 1 /\ workers[w].pc # "idle"
             => /\ Message("cleanup", w - 1) \in gui.applied
                /\ Message("stop_progress", w - 1) \in gui.applied
    /\ ConversionRunning
          => gui.convert_button = "disabled" /\ gui.progress = "started"

\* The progress indicator was stopped by the previous worker's message
\* while the next conversion is running.
C28_WitnessStoppedWhileRunning ==
    /\ workers[2].pc = "convert"
    /\ gui.is_running
    /\ gui.progress = "stopped"
    /\ Message("stop_progress", 1) \in gui.applied

\* What the code keeps of C28: the cleanup message of a conversion is
\* applied before any later conversion starts, and the Convert button is
\* disabled while a conversion is running.
C28_ButtonDisabledWhileRunning ==
    /\ \A w \in Workers :
          w > 1 /\ workers[w].pc # "idle"
             => Message("cleanup", w - 1) \in gui.applied
    /\ ConversionRunning => gui.convert_button = "disabled"

\* The history file f holds the history h: load_feedback reads h from it.
InSync(h, f) ==
    \A now \in Timestamps : load_feedback(f, now).feedback_history = h

\* C29: add_feedback is all-or-nothing: when it raises, for the rating or
\* because the history file cannot be written, the in-memory history is
\* what it was before the call, and a history that agreed with the file
\* before an add_feedback call agrees with it afterwards.
C29_AddFeedbackAllOrNothing ==
    [][call'.op = "add_feedback"
          => /\ call'.raised # NoException
                   => feedback_history' = feedback_history
             /\ InSync(feedback_history, file)
                   => InSync(feedback_history', file')]_vars

\* The write failed and the entry of the failed call is in the in-memory
\* history and not in the file.
C29_WitnessSaveFailed ==
    /\ AddFeedbackRaised("OSError")
    /\ feedback_history # <<>>
    /\ feedback_history[Len(feedback_history)].rating = call.args.rating
    /\ Len(load_feedback(file, <<"T", "1">>).feedback_history)
          < Len(feedback_history)

\* What the code keeps of C29: a call refused for its rating changes
\* nothing, and a call whose write fails leaves the file as it was and the
\* history one entry longer.
C29_OnlyRatingFailureRollsBack ==
    [][call'.op = "add_feedback"
          => /\ call'.raised = "ValueError"
                   => feedback_history' = feedback_history /\ file' = file
             /\ call'.raised = "OSError"
                   => /\ file' = file
                      /\ Len(feedback_history') = Len(feedback_history) + 1
                      /\ IsPrefix(feedback_history, feedback_history')
             /\ call'.raised = NoException
                   => InSync(feedback_history', file')]_vars

\* C30: get_suggested_parameters and get_statistics are read-only: for
\* every history and every argument they leave the in-memory history and
\* the history file as they were, and a call that repeats the last call,
\* with the same arguments on the history that call left, returns what
\* that call returned.
C30_ReadOnlyAndRepeatable ==
    [][call'.op \in {"get_suggested_parameters", "get_statistics"}
          => /\ feedback_history' = feedback_history
             /\ file' = file
             /\ constructed' = constructed
             /\ call'.op = "get_suggested_parameters"
                   => call'.ret = get_suggested_parameters(
                         feedback_history', call'.image_path,
                         call'.min_rating)
             /\ call'.op = "get_statistics"
                   => call'.ret = get_statistics(feedback_history')
             /\ ( /\ call.op = "get_suggested_parameters"
                  /\ call'.op = "get_suggested_parameters"
                  /\ call'.image_path = call.image_path
                  /\ call'.min_rating = call.min_rating )
                   => call'.ret = call.ret
             /\ (call.op = "get_statistics" /\ call'.op = "get_statistics")
                   => call'.ret = call.ret]_vars

\* A suggestion was computed from a history of two entries that is also in
\* the file, one of them rated below min_rating.
C30_Witness ==
    /\ Suggested
    /\ Len(feedback_history) = 2
    /\ Cardinality(Qualifying) = 1
    /\ InSync(feedback_history, file)
    /\ call.ret # get_default_parameters

\* The statistics of a history of two entries were computed.
C30_WitnessStatistics ==
    /\ call.op = "get_statistics"
    /\ call.ret.total_feedback = 2
    /\ file.exists

====
